---- MODULE Spec2Model ----
(***************************************************************************)
(* A model of the experiment grid engine of src/src/plots.py: the grid     *)
(* expansion (expand_grid, the simulation-group codes), the seed allocator *)
(* (get_seeds) and the life cycle of a Dataset (construction, the          *)
(* generate pass with its per-row checkpoint, process termination).        *)
(***************************************************************************)
EXTENDS Integers, Sequences, FiniteSets, TLC

(***************************************************************************)
(* Bounds of the model.                                                    *)
(***************************************************************************)
\* the longest value sequence of one parameter axis
MaxAxisLen == 2
\* the largest number of seeds asked of get_seeds
MaxCount == 2
\* the largest upper bound handed to get_seeds (the code's default is 1e7)
MaxUpper == 3

\* the values a parameter axis may hold: 1/12 and 11/2 concatenate alike
AxisValues == {1, 2, 11, 12}
\* the values of an axis that does not define the simulation (error_rate)
PostValues == {0, 1}
\* the master seeds a caller passes (the datasets' defaults)
MasterSeeds == {13, 123}

\* the number of replicates a dataset is set up with (--reps)
Reps == 2
\* the upper bound of the seeds a dataset draws (the code's default is 1e7)
SeedUpper == 3
\* the number of generate passes that write into one store
MaxPasses == 2

\* the master seed of the dataset (MetricsByMutationRateDataset's default)
DatasetSeed == 13

VARIABLES
    \* expand_grid and the simulation-group codes
    g_axes,     \* the simulation-defining axes, each a sequence of values
    g_post,     \* the axis added after sim_params was taken (error_rate)
    g_table,    \* the expanded table: a sequence of rows
    g_sim,      \* the 'sim' column
    g_pc,
    \* get_seeds
    gs_n, gs_seed, gs_upper,   \* the arguments of the call in progress
    gs_seeds,                  \* the local variable seeds
    gs_pc,
    gs_prev,                   \* the last call that returned (at most one record)
    \* the Dataset: the store file and the process that works on it
    tools,      \* the class attribute tools of the dataset
    file,       \* the store file data_file: <<>> (absent) or <<table>>
    f_hist,     \* of the passes that wrote into the store: "cut" or "done"
    pc,         \* where the process is ("off": no process runs)
    data,       \* self.data: <<>> (None) or <<table>>
    pass,       \* the ordinal of this pass among those writing the store
    i,          \* the row the generate loop is at (0-based)
    todo,       \* the tools still to run for row i
    exit,       \* how the last process ended
    \* the file names (msprime_name and the functions that add to a name)
    nm_args,    \* the parameters of the unit of work
    nm_name,    \* the name built so far
    nm_pc,
    \* save_variant_matrices and generate_samples
    sv_ts,      \* the tree sequence: sample size, genotype columns, positions
    sv_rates,   \* the error rates still to do, the current one first
    sv_S,       \* the matrix S of generate_samples, as its columns
    sv_v,       \* the variant the loop of generate_samples is at (0-based)
    sv_redrawn, \* whether a column of this call was rejected and drawn again
    sv_files,   \* the files written: <<error rate, extension>>
    sv_exc,     \* the exception that left save_variant_matrices, if any
    sv_pc,
    \* run_fastarg and time_cmd
    fa_env,     \* what the command does: exit status, what it and the time
                \* wrapper write to the error stream, whether the files agree
    fa_stderr,  \* the temporary file stderr: the lines captured
    fa_tc,      \* what time_cmd ended with (at most one record)
    fa_bad,     \* whether the file bad.hap exists
    fa_exc,     \* the exception that left run_fastarg, if any
    fa_pc,
    \* the ARGweaver branch of generate() for one row, and run_argweaver
    aw_cfg,     \* the row's aw_n_out_samples and aw_iter_out_freq
    aw_smc,     \* the .smc.gz files under the row's prefix, by identifier
    aw_emitted, \* the identifiers of the files the last run of the tool wrote
    aw_ids,     \* iteration_ids
    aw_todo,    \* the identifiers the for loop has still to convert
    aw_written, \* the .nex files written in this run: name and file read
    aw_cell,    \* the cell ARGweaver_iterations of the row (at most one string)
    aw_runs,    \* how often the branch was entered for the row
    aw_pc,
    \* Dataset.__init__: the run id and the name of the store
    id_args,    \* the arguments of the construction that creates the store
    id_made,    \* the run id and the data file of that construction
    id_given,   \* the data file a later construction is given, or finds
    id_loaded,  \* the run id and the data file of the later construction
    id_prev,    \* the construction before this one: arguments and result
    id_pc,
    \* single_simulation
    ss_env,     \* which draws discretise_mutations refuses, by rate and sub-seed
    ss_args,    \* the mutation rate and the seed of the call
    ss_tried,   \* the sub-seeds drawn in this call, in order
    ss_dumped,  \* the files written: <<name, rate, sub-seed of the simulation>>
    ss_ret,     \* what the call returned (at most one address)
    ss_exc,     \* the exception that left the call, if any
    ss_prev,    \* the call before this one: seed, sub-seeds and result
    ss_pc,
    \* setup() and the names generate() derives from the rows
    su_table,   \* the table created: the rows with group and seed
    su_s,       \* the group the loop of setup is at
    su_files,   \* the files written under simulations_dir
    su_row,     \* the row generate is at (0-based)
    su_read,    \* the files generate asked for at the row before
    su_pc

gridVars == <<g_axes, g_post, g_table, g_sim, g_pc>>
seedVars == <<gs_n, gs_seed, gs_upper, gs_seeds, gs_pc, gs_prev>>
dataVars == <<tools, file, f_hist, pc, data, pass, i, todo, exit>>
nameVars == <<nm_args, nm_name, nm_pc>>
\* the variables of the helpers that are modelled on their own
sampVars == <<sv_ts, sv_rates, sv_S, sv_v, sv_redrawn, sv_files, sv_exc, sv_pc>>
fastVars == <<fa_env, fa_stderr, fa_tc, fa_bad, fa_exc, fa_pc>>
awVars == <<aw_cfg, aw_smc, aw_emitted, aw_ids, aw_todo, aw_written, aw_cell, aw_runs, aw_pc>>
idVars == <<id_args, id_made, id_given, id_loaded, id_prev, id_pc>>
simVars == <<ss_env, ss_args, ss_tried, ss_dumped, ss_ret, ss_exc, ss_prev, ss_pc>>
setupVars == <<su_table, su_s, su_files, su_row, su_read, su_pc>>
laterVars == <<idVars, simVars, setupVars>>
pureVars == <<nameVars, sampVars, fastVars, awVars, laterVars>>
\* the variables of the grid, the seeds and the Dataset
coreVars == <<gridVars, seedVars, dataVars>>
vars == <<gridVars, seedVars, dataVars, pureVars>>
\* what the steps of one helper leave alone
notName == <<coreVars, sampVars, fastVars, awVars, laterVars>>
notSamp == <<coreVars, nameVars, fastVars, awVars, laterVars>>
notFast == <<coreVars, nameVars, sampVars, awVars, laterVars>>
notAw == <<coreVars, nameVars, sampVars, fastVars, laterVars>>
earlierVars == <<nameVars, sampVars, fastVars, awVars>>
notId == <<coreVars, earlierVars, simVars, setupVars>>
notSim == <<coreVars, earlierVars, idVars, setupVars>>
notSetup == <<coreVars, earlierVars, idVars, simVars>>

\* no name is being built
NameIdle == nm_args = <<>> /\ nm_name = <<>> /\ nm_pc = "off"

\* none of the helpers modelled on their own is running
\* save_variant_matrices is not running
SampIdle ==
    /\ sv_ts = <<>> /\ sv_rates = <<>> /\ sv_S = <<>> /\ sv_v = 0
    /\ sv_redrawn = FALSE /\ sv_files = {} /\ sv_exc = "" /\ sv_pc = "off"

\* run_fastarg is not running
FastIdle ==
    /\ fa_env = <<>> /\ fa_stderr = <<>> /\ fa_tc = <<>> /\ fa_bad = FALSE
    /\ fa_exc = "" /\ fa_pc = "off"

\* the ARGweaver branch is not running
AwIdle ==
    /\ aw_cfg = <<>> /\ aw_smc = {} /\ aw_emitted = {} /\ aw_ids = <<>> /\ aw_todo = <<>>
    /\ aw_written = <<>> /\ aw_cell = <<>> /\ aw_runs = 0 /\ aw_pc = "off"

\* no Dataset is being constructed for its names
IdIdle ==
    /\ id_args = <<>> /\ id_made = <<>> /\ id_given = <<>> /\ id_loaded = <<>>
    /\ id_prev = <<>> /\ id_pc = "off"

\* single_simulation is not running
SimIdle ==
    /\ ss_env = <<>> /\ ss_args = <<>> /\ ss_tried = <<>> /\ ss_dumped = {}
    /\ ss_ret = <<>> /\ ss_exc = "" /\ ss_prev = <<>> /\ ss_pc = "off"

\* setup() is not running
SetupIdle ==
    /\ su_table = <<>> /\ su_s = 0 /\ su_files = {} /\ su_row = 0
    /\ su_read = {} /\ su_pc = "off"

LaterIdle == IdIdle /\ SimIdle /\ SetupIdle

PureIdle == NameIdle /\ SampIdle /\ FastIdle /\ AwIdle /\ LaterIdle

(***************************************************************************)
(* Sequences, strings and sorting.                                         *)
(***************************************************************************)
Range(s) == {s[k] : k \in 1..Len(s)}

SeqsUpTo(S, n) == UNION {[1..k -> S] : k \in 0..n}

\* str(v) of a non-negative integer: its decimal digits as character codes
RECURSIVE Str(_)
Str(v) == IF v < 10 THEN <<48 + v>> ELSE Append(Str(v \div 10), 48 + (v % 10))

\* "".join over the strings of one row
RECURSIVE Join(_)
Join(strs) == IF strs = <<>> THEN <<>> ELSE Head(strs) \o Join(Tail(strs))

\* Python's < on strings: by character code, a proper prefix first
RECURSIVE StrLess(_, _)
StrLess(a, b) ==
    IF b = <<>> THEN FALSE
    ELSE IF a = <<>> THEN TRUE
    ELSE IF Head(a) # Head(b) THEN Head(a) < Head(b)
    ELSE StrLess(Tail(a), Tail(b))

\* the number of places of s that hold v
Count(s, v) == Cardinality({k \in 1..Len(s) : s[k] = v})

\* an array left as it was drawn, repeated values kept
np_as_drawn(arr) == arr

\* np.unique of an integer array: the distinct values in ascending order
RECURSIVE SortedSeq(_)
SortedSeq(S) ==
    IF S = {} THEN <<>>
    ELSE LET m == CHOOSE x \in S : \A y \in S : x <= y
         IN  <<m>> \o SortedSeq(S \ {m})

np_unique(arr) == SortedSeq(Range(arr))

(***************************************************************************)
(* expand_grid: itertools.product over the axes, in the mapping's order.   *)
(***************************************************************************)
\* one round of itertools.product: [x + [y] for x in result for y in pool]
ProductStep(result, pool) ==
    [k \in 1..(Len(result) * Len(pool)) |->
        Append(result[((k - 1) \div Len(pool)) + 1], pool[((k - 1) % Len(pool)) + 1])]

RECURSIVE product(_)
product(pools) ==
    IF pools = <<>> THEN << <<>> >>
    ELSE ProductStep(product(SubSeq(pools, 1, Len(pools) - 1)), pools[Len(pools)])

\* a grid that pairs the axes place by place (zip) instead of crossing them
expand_grid_zip(data_dict) ==
    LET n == CHOOSE m \in 0..MaxAxisLen + 1 :
                 /\ \A j \in 1..Len(data_dict) : m <= Len(data_dict[j])
                 /\ \E j \in 1..Len(data_dict) : m = Len(data_dict[j])
    IN  [k \in 1..n |-> [j \in 1..Len(data_dict) |-> data_dict[j][k]]]

expand_grid(data_dict) == product(data_dict)

\* data[sim_params].astype(str).apply("".join, 1): one string per row
SimString(r, nsim) == Join([k \in 1..nsim |-> Str(r[k])])

\* pd.Categorical(strings).codes: the rank of each string among the sorted
\* distinct strings
CategoricalCodes(strs) ==
    [k \in 1..Len(strs) |-> Cardinality({t \in Range(strs) : StrLess(t, strs[k])})]

SimCodes(table, nsim) == CategoricalCodes([k \in 1..Len(table) |-> SimString(table[k], nsim)])

(***************************************************************************)
(* The grid: the axes are given, expand_grid builds the table, and the     *)
(* 'sim' column is the categorical code of each row's joined sim_params.   *)
(***************************************************************************)
GridIdle ==
    /\ g_axes = <<>> /\ g_post = <<>> /\ g_table = <<>> /\ g_sim = <<>> /\ g_pc = "off"

GridParams ==
    /\ g_axes \in {<<a, b>> : a, b \in SeqsUpTo(AxisValues, MaxAxisLen)}
    /\ g_post \in SeqsUpTo(PostValues, MaxAxisLen)
    /\ g_table = <<>>
    /\ g_sim = <<>>
    /\ g_pc = "params"

\* self.data = expand_grid(params)
GridExpand ==
    /\ g_pc = "params"
    /\ g_table' = expand_grid(g_axes \o <<g_post>>)
    /\ g_pc' = "expanded"
    /\ UNCHANGED <<g_axes, g_post, g_sim, seedVars, dataVars, pureVars>>

\* self.data['sim'] = pd.Categorical(...).codes
GridAssignSim ==
    /\ g_pc = "expanded"
    /\ g_sim' = SimCodes(g_table, Len(g_axes))
    /\ g_pc' = "coded"
    /\ UNCHANGED <<g_axes, g_post, g_table, seedVars, dataVars, pureVars>>

GridNext == GridExpand \/ GridAssignSim

(***************************************************************************)
(* get_seeds(n, seed, upper).                                              *)
(***************************************************************************)
\* np.random.seed() takes no argument: the generator is seeded from the
\* operating system's entropy, so a draw of k values below upper may be
\* any sequence, whatever the seed parameter is
Draws(seed, k, upper) == [1..k -> 0..(upper - 1)]

\* the loop body's np.append(np.random.randint(...)): np.append requires
\* the array and the values, so the call with one argument raises TypeError
TopUpFixed(seeds, drawn) == [raised |-> FALSE, value |-> seeds \o drawn]
TopUp(seeds, drawn) == [raised |-> TRUE, value |-> seeds]

SeedIdle ==
    /\ gs_n = 0 /\ gs_seed = 0 /\ gs_upper = 0 /\ gs_seeds = <<>>
    /\ gs_pc = "idle" /\ gs_prev = <<>>

\* a caller enters get_seeds
GS_Call(n, seed, upper) ==
    /\ gs_pc = "idle"
    /\ gs_n' = n /\ gs_seed' = seed /\ gs_upper' = upper
    /\ gs_seeds' = <<>>
    /\ gs_pc' = "seeded"
    /\ UNCHANGED gs_prev

\* np.random.seed(); seeds = np.random.randint(upper, size=n); np.unique
GS_FirstDraw ==
    /\ gs_pc = "seeded"
    /\ IF gs_upper <= 0
       THEN \* randint: ValueError, low >= high
            /\ gs_pc' = "raised"
            /\ UNCHANGED gs_seeds
       ELSE \E drawn \in Draws(gs_seed, gs_n, gs_upper) :
                /\ gs_seeds' = np_unique(drawn)
                /\ gs_pc' = "test"
    /\ UNCHANGED <<gs_n, gs_seed, gs_upper, gs_prev>>

\* while len(seeds) != n: top up and deduplicate; return seeds
GS_While ==
    /\ gs_pc = "test"
    /\ IF Len(gs_seeds) = gs_n
       THEN /\ gs_pc' = "returned"
            /\ UNCHANGED <<gs_seeds, gs_prev>>
       ELSE \E drawn \in Draws(gs_seed, gs_n - Len(gs_seeds), gs_upper) :
                LET r == TopUp(gs_seeds, drawn)
                IN  /\ IF r.raised
                       THEN gs_pc' = "raised" /\ UNCHANGED gs_seeds
                       ELSE gs_pc' = "test" /\ gs_seeds' = np_unique(r.value)
                    /\ UNCHANGED gs_prev
    /\ UNCHANGED <<gs_n, gs_seed, gs_upper>>

\* the caller takes the result (or the exception) and the frame is gone
GS_Leave ==
    /\ gs_pc \in {"returned", "raised"}
    /\ gs_pc' = "idle"
    /\ gs_seeds' = <<>>
    /\ gs_prev' = IF gs_pc = "returned"
                  THEN <<[n |-> gs_n, seed |-> gs_seed, upper |-> gs_upper,
                          seeds |-> gs_seeds]>>
                  ELSE gs_prev
    /\ UNCHANGED <<gs_n, gs_seed, gs_upper>>

\* no dataset: the class is not instantiated
DatasetIdle ==
    /\ tools = <<>> /\ file = <<>> /\ f_hist = <<>> /\ pc = "off" /\ data = <<>>
    /\ pass = 0 /\ i = 0 /\ todo = <<>> /\ exit = "none"

SeedInit == SeedIdle /\ GridIdle /\ DatasetIdle /\ PureIdle

SeedCall ==
    /\ pc = "off"
    /\ \E n \in 1..MaxCount, seed \in MasterSeeds, upper \in 0..MaxUpper :
           GS_Call(n, seed, upper)
    /\ UNCHANGED <<gridVars, dataVars, pureVars>>

SeedRun ==
    /\ (GS_FirstDraw \/ GS_While)
    /\ UNCHANGED <<gridVars, dataVars, pureVars>>

SeedLeave ==
    /\ pc = "off"
    /\ GS_Leave
    /\ UNCHANGED <<gridVars, dataVars, pureVars>>

SeedNext == SeedCall \/ SeedRun \/ SeedLeave

\* Python runs the call to its end: no step of get_seeds is postponed forever
SeedSpec == SeedInit /\ [][SeedNext]_vars /\ WF_vars(SeedRun)

GridInit == GridParams /\ SeedIdle /\ DatasetIdle /\ PureIdle

GridSpec == GridInit /\ [][GridNext]_vars

(***************************************************************************)
(* The Dataset (MetricsByMutationRateDataset, whose generate() is          *)
(* Dataset.generate).  A table is [rows, cols, unnamed]: cols are the      *)
(* tools whose result columns exist, unnamed counts the leading columns    *)
(* without a name of their own (the index that to_csv writes).  The axes   *)
(* with a single value are left out of the rows.  A measurement (CPU time, *)
(* memory) is never read back by the code; it is represented by the        *)
(* ordinal of the pass that took it.                                       *)
(***************************************************************************)
\* a missing cell
NaN == <<>>

\* the class attribute tools: the shipped list, and two lists with a name
\* that generate() has no branch for
MetricsTools == <<"fastARG", "msinfer", "ARGweaver">>
ToolLists == {MetricsTools, <<"fastARG", "bogus">>, <<"msinfer", "zzz">>}

\* the branches of generate()
KnownTools == {"msinfer", "fastARG", "ARGweaver"}

\* every tool name, in Python's string order
ToolOrder == <<"ARGweaver", "bogus", "fastARG", "msinfer", "zzz">>
ToolNames == Range(ToolOrder)

\* sorted(tool_cols.items())
SortedTools(ts) == SelectSeq(ToolOrder, LAMBDA t : t \in Range(ts))

\* the axes: mutation_rate (in 1e-9), replicate and, not defining the
\* simulation, error_rate (in percent)
MutationRates == <<15>>
Replicates(reps) == [k \in 1..reps |-> k - 1]
ErrorRates == <<0, 1>>
SimAxes == <<MutationRates, Replicates(Reps)>>

\* the iteration identifiers run_argweaver may find
IterationLists == {<<0>>, <<0, 10>>}

\* the table after expand_grid and the 'sim' column
GridTable ==
    LET grid == expand_grid(SimAxes \o <<ErrorRates>>)
        sim == SimCodes(grid, Len(SimAxes))
    IN  [rows |-> [k \in 1..Len(grid) |->
                      [axes |-> grid[k], sim |-> sim[k], seed |-> NaN,
                       inference_seed |-> NaN, res |-> [t \in ToolNames |-> NaN]]],
         cols |-> {},
         unnamed |-> 0]

\* max(self.data.sim) + 1
NumSims(t) ==
    1 + CHOOSE m \in {t.rows[k].sim : k \in 1..Len(t.rows)} :
            \A k \in 1..Len(t.rows) : t.rows[k].sim <= m

\* a seed column filled by row position instead of by group
AssignSeedsByRow(t, seeds) ==
    [t EXCEPT !.rows = [k \in 1..Len(t.rows) |->
        [t.rows[k] EXCEPT !.seed = <<seeds[((k - 1) % Len(seeds)) + 1]>>]]]

\* self.data['seed'] = get_seeds(...)[self.data.sim]
AssignSeeds(t, seeds) ==
    [t EXCEPT !.rows = [k \in 1..Len(t.rows) |->
        [t.rows[k] EXCEPT !.seed = <<seeds[t.rows[k].sim + 1]>>]]]

\* DataFrame.to_csv(path): the index is written as one more leading column,
\* under an empty header
to_csv(d) == [rows |-> d.rows, cols |-> d.cols, unnamed |-> d.unnamed + 1]

\* pd.read_csv(path): a fresh index; every leading column, the written
\* index among them, becomes a data column 'Unnamed: 0', 'Unnamed: 0.1', ...
read_csv(f) == [rows |-> f.rows, cols |-> f.cols, unnamed |-> f.unnamed]

\* result columns set to missing values whether or not they exist
add_columns_afresh(d, ts) ==
    [d EXCEPT !.rows = [k \in 1..Len(d.rows) |->
                           [d.rows[k] EXCEPT !.res = [t \in ToolNames |->
                               IF t \in Range(ts) THEN NaN ELSE @[t]]]],
              !.cols = @ \cup Range(ts)]

\* add_columns for the result columns of every tool of ts
add_columns(d, ts) ==
    [d EXCEPT !.rows = [k \in 1..Len(d.rows) |->
                           [d.rows[k] EXCEPT !.res = [t \in ToolNames |->
                               IF t \in Range(ts) /\ t \notin d.cols THEN NaN ELSE @[t]]]],
              !.cols = @ \cup Range(ts)]

\* an inference seed that is the seed of the group, without the row index
SetInferenceSeedOfGroup(d, row) ==
    [d EXCEPT !.rows[row + 1].inference_seed = <<d.rows[row + 1].seed[1]>>]

\* self.data.loc[i, 'inference_seed'] = int(d.seed + i)
SetInferenceSeed(d, row) ==
    [d EXCEPT !.rows[row + 1].inference_seed = <<d.rows[row + 1].seed[1] + row>>]

\* a result written only into cells that hold no value yet
SetCellsIfMissing(d, row, t, value) ==
    IF d.rows[row + 1].res[t] = NaN
    THEN [d EXCEPT !.rows[row + 1].res[t] = value]
    ELSE d

\* self.data.loc[i, result_cols] = ...
SetCells(d, row, t, value) == [d EXCEPT !.rows[row + 1].res[t] = value]

\* a store written once, after the loop, instead of after every row
AfterRowStoreAtEnd(f, d, row) ==
    IF row + 1 = Len(d.rows) THEN to_csv(d) ELSE f

\* the store after row `row`: self.data.to_csv(self.data_file), in the loop
AfterRowStore(f, d, row) == to_csv(d)

\* a failing tool skipped, and the pass going on with the next tool
SkipFailedTool(st) == [st EXCEPT !.todo = Tail(@)]

\* generate() catches nothing: a tool's exception leaves generate() and
\* ends the process
ToolFailure(st) == [pc |-> "off", data |-> <<>>, pass |-> 0, i |-> 0, todo |-> <<>>]

DatasetInit ==
    /\ tools \in ToolLists
    /\ file = <<>> /\ f_hist = <<>> /\ pc = "off" /\ data = <<>>
    /\ pass = 0 /\ i = 0 /\ todo = <<>> /\ exit = "none"
    /\ SeedIdle /\ GridIdle /\ PureIdle

ProcessEnds(how) ==
    /\ pc' = "off" /\ data' = <<>> /\ pass' = 0 /\ i' = 0 /\ todo' = <<>>
    /\ exit' = how

\* `setup NAME`: the class is constructed with reps and seed.  Dataset.__init__
\* sets self.data = None without looking for the data file, and the subclass
\* expands the grid and asks get_seeds for one seed per simulation
CmdSetup ==
    /\ pc = "off"
    /\ data' = <<GridTable>>
    /\ GS_Call(NumSims(GridTable), DatasetSeed, SeedUpper)
    /\ pc' = "create"
    /\ exit' = "running"
    /\ UNCHANGED <<tools, file, f_hist, pass, i, todo, gridVars, pureVars>>

\* get_seeds returned: the seed column is set and the table is written
CreateStore ==
    /\ pc = "create" /\ gs_pc = "returned"
    /\ LET d == AssignSeeds(data[1], gs_seeds)
       IN  /\ data' = <<d>>
           /\ file' = <<to_csv(d)>>
    /\ f_hist' = <<>>
    /\ GS_Leave
    /\ pc' = "setup"
    /\ UNCHANGED <<tools, pass, i, todo, exit, gridVars, pureVars>>

\* get_seeds raised: the exception ends the process
CreateFails ==
    /\ pc = "create" /\ gs_pc = "raised"
    /\ GS_Leave
    /\ ProcessEnds("seeds")
    /\ UNCHANGED <<tools, file, f_hist, gridVars, pureVars>>

\* setup(): the simulations of every group; the table is read, not written
SetupDone ==
    /\ pc = "setup"
    /\ ProcessEnds("done")
    /\ UNCHANGED <<tools, file, f_hist, gridVars, seedVars, pureVars>>

\* `generate NAME`: the class is constructed without reps and seed, and
\* Dataset.__init__ globs for the store: none, sys.exit; else pd.read_csv
CmdGenerate ==
    /\ pc = "off"
    /\ IF file = <<>>
       THEN /\ exit' = "nofile"
            /\ UNCHANGED <<pc, data, pass>>
       ELSE /\ Len(f_hist) < MaxPasses
            /\ data' = <<read_csv(file[1])>>
            /\ pass' = Len(f_hist) + 1
            /\ pc' = "generate"
            /\ exit' = "running"
    /\ UNCHANGED <<tools, file, f_hist, i, todo, gridVars, seedVars, pureVars>>

\* generate(): the result columns of every tool
GenAddColumns ==
    /\ pc = "generate"
    /\ data' = <<add_columns(data[1], tools)>>
    /\ pc' = "row"
    /\ UNCHANGED <<tools, file, f_hist, pass, i, todo, exit, gridVars, seedVars, pureVars>>

\* for i in self.data.index: the inference seed of the row, or the end
GenRow ==
    /\ pc = "row"
    /\ IF i < Len(data[1].rows)
       THEN /\ data' = <<SetInferenceSeed(data[1], i)>>
            /\ todo' = SortedTools(tools)
            /\ pc' = "tools"
            /\ UNCHANGED <<pass, i, exit>>
       ELSE ProcessEnds("done")
    /\ UNCHANGED <<tools, file, f_hist, gridVars, seedVars, pureVars>>

ToolReturns(t, value) ==
    /\ pc = "tools" /\ todo # <<>> /\ Head(todo) = t
    /\ data' = <<SetCells(data[1], i, t, value)>>
    /\ todo' = Tail(todo)
    /\ UNCHANGED <<tools, file, f_hist, pc, pass, i, exit, gridVars, seedVars, pureVars>>

\* the msinfer branch: run_tsinf measures the time and reports memory 0
RunMsinfer == ToolReturns("msinfer", <<pass, 0>>)

\* the fastARG branch: time_cmd measures the time and the memory
RunFastARG == ToolReturns("fastARG", <<pass, pass>>)

\* the ARGweaver branch: the time, memory 0 and the iterations found
RunARGweaver == \E its \in IterationLists : ToolReturns("ARGweaver", <<pass, 0, its>>)

\* a tool of a known branch raises (time_cmd's ValueError, an assertion, ...)
ToolFails ==
    /\ pc = "tools" /\ todo # <<>> /\ Head(todo) \in KnownTools
    /\ LET st == ToolFailure([pc |-> pc, data |-> data, pass |-> pass, i |-> i,
                              todo |-> todo])
       IN  /\ pc' = st.pc /\ data' = st.data /\ pass' = st.pass
           /\ i' = st.i /\ todo' = st.todo
    /\ exit' = "tool"
    /\ UNCHANGED <<tools, file, f_hist, gridVars, seedVars, pureVars>>

\* else: raise KeyError
UnknownTool ==
    /\ pc = "tools" /\ todo # <<>> /\ Head(todo) \notin KnownTools
    /\ ProcessEnds("KeyError")
    /\ UNCHANGED <<tools, file, f_hist, gridVars, seedVars, pureVars>>

\* the end of the loop body: self.data.to_csv(self.data_file)
Checkpoint ==
    /\ pc = "tools" /\ todo = <<>>
    /\ file' = <<AfterRowStore(file[1], data[1], i)>>
    /\ f_hist' = LET last == IF i + 1 = Len(data[1].rows) THEN "done" ELSE "cut"
                 IN  IF Len(f_hist) < pass THEN Append(f_hist, last)
                     ELSE [f_hist EXCEPT ![pass] = last]
    /\ i' = i + 1
    /\ pc' = "row"
    /\ UNCHANGED <<tools, data, pass, todo, exit, gridVars, seedVars, pureVars>>

\* the process is terminated from outside, wherever it is
Kill ==
    /\ pc # "off"
    /\ ProcessEnds("killed")
    /\ gs_pc' = "idle" /\ gs_seeds' = <<>>
    /\ UNCHANGED <<tools, file, f_hist, gridVars, gs_n, gs_seed, gs_upper, gs_prev, pureVars>>

Next ==
    \/ CmdSetup \/ SeedRun \/ CreateStore \/ CreateFails \/ SetupDone
    \/ CmdGenerate \/ GenAddColumns \/ GenRow
    \/ RunMsinfer \/ RunFastARG \/ RunARGweaver \/ ToolFails \/ UnknownTool
    \/ Checkpoint \/ Kill

Init == DatasetInit

Spec == Init /\ [][Next]_vars

(***************************************************************************)
(* The file names: msprime_name and the functions that add a parameter to  *)
(* a name.  A name is its sequence of character codes.  A rate (rho, mu)   *)
(* is an integer number of 1e-13, one decimal place more than the name     *)
(* keeps; an error rate is an integer number of 0.01.                      *)
(***************************************************************************)
\* the digits of v, with leading zeros, in w places
RECURSIVE PadDigits(_, _)
PadDigits(v, w) ==
    IF w = 0 THEN <<>> ELSE Append(PadDigits(v \div 10, w - 1), 48 + (v % 10))

\* s.rstrip(c)
RECURSIVE RStrip(_, _)
RStrip(s, c) ==
    IF s # <<>> /\ s[Len(s)] = c THEN RStrip(SubSeq(s, 1, Len(s) - 1), c) ELSE s

\* s.endswith(c) for a single character c
EndsWith(s, c) == s # <<>> /\ s[Len(s)] = c

\* "{:.12f}".format(float(x)).rstrip('0') of the rate x = v * 1e-13: the
\* value is rounded to 12 decimal places, then the trailing zeros go
Fixed12(v) ==
    LET q == (v + 5) \div 10
    IN  RStrip(Str((q \div 1000000) \div 1000000) \o <<46>> \o PadDigits(q, 12), 48)

\* "{}".format(float(x)) of a whole number x below 1e16: "5000.0"
FloatOfInt(x) == Str(x) \o <<46, 48>>

\* "{}".format(float(x)) of x = e * 0.01, e = 0 or 0.01 <= x: "0.0", "0.01", "0.1"
FloatOfHundredths(e) ==
    LET frac == RStrip(PadDigits(e % 100, 2), 48)
    IN  Str(e \div 100) \o <<46>> \o (IF frac = <<>> THEN <<48>> ELSE frac)

\* os.path.join(directory, file) of a relative file name
path_join(directory, f) ==
    IF EndsWith(directory, 47) THEN directory \o f ELSE directory \o <<47>> \o f

\* directory is <<>> (None) or <<name>>
msprime_name(n, Ne, l, rho, mu, genealogy_seed, mut_seed, directory) ==
    LET f ==    <<109, 115, 112, 114, 105, 109, 101, 45, 110>> \o Str(n)  \* "msprime-n"
             \o <<95, 78, 101>> \o FloatOfInt(Ne)                         \* "_Ne"
             \o <<95, 108>> \o Str(l)                                     \* "_l"
             \o <<95, 114, 104, 111>> \o Fixed12(rho)                     \* "_rho"
             \o <<95, 109, 117>> \o Fixed12(mu)                           \* "_mu"
             \o <<45, 103, 115>> \o Str(genealogy_seed)                   \* "-gs"
             \o <<95, 109, 115>> \o Str(mut_seed)                         \* "_ms"
    IN  IF directory = <<>> THEN f ELSE path_join(directory[1], f)

add_error_param_to_name(sim_name, error_rate) ==
    IF EndsWith(sim_name, 43) \/ EndsWith(sim_name, 45)
    THEN sim_name \o <<95, 101, 114, 114>> \o FloatOfHundredths(error_rate)  \* "_err"
    ELSE sim_name \o <<101, 114, 114>> \o FloatOfHundredths(error_rate)      \* "err"

\* both branches read sim_basename, a name that is bound nowhere in the
\* module: the lookup raises NameError before anything is returned
add_subsample_param_to_name(sim_name, subsample_size) ==
    [raised |-> TRUE, value |-> <<>>]

\* the parameters of a unit of work: the sample size, the length and the
\* seed, rates that differ from the twelfth decimal place on and after it,
\* the error rates of the datasets, with and without a subsample size and a
\* directory
NameArgs ==
    [n : {2, 12}, Ne : {5000}, l : {1, 10}, rho : {250000},
     mu : {150000, 150004, 320000}, seed : {1, 11}, err : {0, 1, 10},
     sub : {<<>>, <<5>>}, dir : {<<>>, << <<100>> >>}]

NameInit ==
    /\ nm_args \in NameArgs /\ nm_name = <<>> /\ nm_pc = "args"
    /\ GridIdle /\ SeedIdle /\ DatasetIdle /\ SampIdle /\ FastIdle /\ AwIdle
    /\ LaterIdle

\* single_simulation: sim_fn = msprime_name(n, Ne, l, rho, mu, seed, seed, dir)
NM_Msprime ==
    /\ nm_pc = "args"
    /\ nm_name' = msprime_name(nm_args.n, nm_args.Ne, nm_args.l, nm_args.rho,
                               nm_args.mu, nm_args.seed, nm_args.seed, nm_args.dir)
    /\ nm_pc' = "sim"
    /\ UNCHANGED <<nm_args, notName>>

\* single_simulation with a subsample: sim_fn = add_subsample_param_to_name(...)
NM_Subsample ==
    /\ nm_pc = "sim" /\ nm_args.sub # <<>>
    /\ LET r == add_subsample_param_to_name(nm_name, nm_args.sub[1])
       IN  IF r.raised
           THEN nm_pc' = "raised" /\ UNCHANGED nm_name
           ELSE nm_pc' = "sub" /\ nm_name' = r.value
    /\ UNCHANGED <<nm_args, notName>>

\* save_variant_matrices, generate: add_error_param_to_name(sim_fn, error_rate)
NM_AddError ==
    /\ nm_pc = "sim" /\ nm_args.sub = <<>>
    /\ nm_name' = add_error_param_to_name(nm_name, nm_args.err)
    /\ nm_pc' = "err"
    /\ UNCHANGED <<nm_args, notName>>

NameNext == NM_Msprime \/ NM_Subsample \/ NM_AddError

NameSpec == NameInit /\ [][NameNext]_vars

(***************************************************************************)
(* save_variant_matrices and, inside it, generate_samples and make_errors. *)
(* A genotype column is a sequence of sample_size bits.  An error          *)
(* probability is an integer number of 0.01.  A position is an integer     *)
(* number of halves, so that an odd number is a position that is not a     *)
(* whole number.                                                           *)
(***************************************************************************)
\* the sample sizes: one sample, for which no column can hold a 0 and a 1,
\* and two
SampleSizes == {1, 2}
\* the largest number of variants of a tree sequence
MaxVariants == 2
\* the error probabilities: none, one of the datasets (0.1), and certainty
ErrorPs == {0, 10, 100}

\* the positions: 1 and 1.5
Positions == {2, 3}

\* pd.unique(sim.error_rate): the rates of a simulation, none of them twice
ErrorRateLists == {<<>>, <<0>>, <<10>>, <<100>>, <<0, 10>>, <<10, 0>>, <<0, 10, 100>>}

Columns(n) == [1..n -> {0, 1}]

\* an error process that may flip any bit, whatever the probability
MasksAnyFlip(p, m) == [1..m -> BOOLEAN]

\* an error process that never flips a bit
MasksNoFlip(p, m) == {[k \in 1..m |-> FALSE]}

\* np.random.random(m) < p: no place is below 0, every place is below 1,
\* and for p in between any mask may come out
Masks(p, m) ==
    IF p <= 0 THEN {[k \in 1..m |-> FALSE]}
    ELSE IF p >= 100 THEN {[k \in 1..m |-> TRUE]}
    ELSE [1..m -> BOOLEAN]

\* np.logical_xor(v.astype(bool), mask).astype(int)
make_errors(v, mask) ==
    [k \in 1..Len(v) |-> IF (v[k] # 0) # mask[k] THEN 1 ELSE 0]

\* np.sum of a column
RECURSIVE Sum(_)
Sum(col) == IF col = <<>> THEN 0 ELSE Head(col) + Sum(Tail(col))

\* a test that lets every column through
DoneAlways(s, sample_size) == 0 <= s /\ s <= sample_size

\* done = 0 < s < ts.sample_size
Done(s, sample_size) == 0 < s /\ s < sample_size

\* p.is_integer() for every position
AllInteger(pos) == \A k \in 1..Len(pos) : pos[k] % 2 = 0

\* the tree sequences: a sample size, one genotype column and one position
\* per variant
TreeSequences ==
    UNION {[n : {n}, geno : [1..m -> Columns(n)], pos : [1..m -> Positions]] :
               n \in SampleSizes, m \in 0..MaxVariants}

SampleInit ==
    /\ sv_ts \in TreeSequences
    /\ sv_rates \in ErrorRateLists
    /\ sv_S = <<>> /\ sv_v = 0 /\ sv_redrawn = FALSE
    /\ sv_files = {} /\ sv_exc = "" /\ sv_pc = "for"
    /\ GridIdle /\ SeedIdle /\ DatasetIdle /\ NameIdle /\ FastIdle /\ AwIdle
    /\ LaterIdle

\* for error_rate in error_rates: generate_samples is entered, with
\* S = np.zeros((ts.sample_size, ts.num_mutations))
SV_For ==
    /\ sv_pc = "for"
    /\ IF sv_rates = <<>>
       THEN sv_pc' = "returned" /\ UNCHANGED <<sv_S, sv_v, sv_redrawn>>
       ELSE /\ sv_S' = [k \in 1..Len(sv_ts.geno) |-> [j \in 1..sv_ts.n |-> 0]]
            /\ sv_v' = 0
            /\ sv_redrawn' = FALSE
            /\ sv_pc' = "samples"
    /\ UNCHANGED <<sv_ts, sv_rates, sv_files, sv_exc, notSamp>>

\* one turn of the while loop for variant sv_v: the column is drawn and
\* summed, and done is set
GS_Column(accepted) ==
    /\ sv_pc = "samples" /\ sv_v < Len(sv_ts.geno)
    /\ \E mask \in Masks(Head(sv_rates), sv_ts.n) :
           LET col == make_errors(sv_ts.geno[sv_v + 1], mask)
               done == Done(Sum(col), sv_ts.n)
           IN  /\ done = accepted
               /\ sv_S' = [sv_S EXCEPT ![sv_v + 1] = col]
               /\ sv_v' = IF done THEN sv_v + 1 ELSE sv_v
               /\ sv_redrawn' = (sv_redrawn \/ ~done)
    /\ UNCHANGED <<sv_ts, sv_rates, sv_files, sv_exc, sv_pc, notSamp>>

\* the column drawn is kept and the for loop goes to the next variant
GS_Accept == GS_Column(TRUE)

\* the column drawn is fixed: the while loop draws again
GS_Reject == GS_Column(FALSE)

\* return S
GS_Return ==
    /\ sv_pc = "samples" /\ sv_v = Len(sv_ts.geno)
    /\ sv_pc' = "save"
    /\ UNCHANGED <<sv_ts, sv_rates, sv_S, sv_v, sv_redrawn, sv_files, sv_exc,
                   notSamp>>

\* np.save of the matrix (.npy) and of the positions (.pos.npy)
SV_Save ==
    /\ sv_pc = "save"
    /\ sv_files' = sv_files \cup {<<Head(sv_rates), "npy">>, <<Head(sv_rates), "pos.npy">>}
    /\ sv_pc' = "assert"
    /\ UNCHANGED <<sv_ts, sv_rates, sv_S, sv_v, sv_redrawn, sv_exc, notSamp>>

\* assert all(p.is_integer() for p in pos), "...{}".format(): the message is
\* evaluated when the test fails, and format() without an argument for its
\* field raises IndexError in place of the AssertionError
SV_Assert ==
    /\ sv_pc = "assert"
    /\ IF AllInteger(sv_ts.pos)
       THEN sv_pc' = "hap" /\ UNCHANGED sv_exc
       ELSE sv_pc' = "raised" /\ sv_exc' = "IndexError"
    /\ UNCHANGED <<sv_ts, sv_rates, sv_S, sv_v, sv_redrawn, sv_files, notSamp>>

\* the .hap file for fastARG
SV_WriteHap ==
    /\ sv_pc = "hap"
    /\ sv_files' = sv_files \cup {<<Head(sv_rates), "hap">>}
    /\ sv_pc' = "sites"
    /\ UNCHANGED <<sv_ts, sv_rates, sv_S, sv_v, sv_redrawn, sv_exc, notSamp>>

\* the .sites file for ARGweaver, and the next error rate
SV_WriteSites ==
    /\ sv_pc = "sites"
    /\ sv_files' = sv_files \cup {<<Head(sv_rates), "sites">>}
    /\ sv_rates' = Tail(sv_rates)
    /\ sv_pc' = "for"
    /\ UNCHANGED <<sv_ts, sv_S, sv_v, sv_redrawn, sv_exc, notSamp>>

\* the steps other than a draw that is rejected
SampleProgress ==
    SV_For \/ GS_Accept \/ GS_Return \/ SV_Save \/ SV_Assert \/ SV_WriteHap \/ SV_WriteSites

SampleNext == SampleProgress \/ GS_Reject

\* Python runs the call on, and the draws are fair: a column that can be
\* accepted is not rejected forever
SampleSpec == SampleInit /\ [][SampleNext]_vars /\ WF_vars(SampleProgress)

(***************************************************************************)
(* run_fastarg and, inside it, time_cmd.  The error stream of the command  *)
(* is a sequence of lines, a line a sequence of whitespace-separated       *)
(* fields.  A field is a word, an integer literal or a decimal literal; a  *)
(* time is an integer number of 0.01 s.                                    *)
(***************************************************************************)
\* the largest number of whole lines the tool writes to its error stream
MaxToolLines == 1
\* the largest exit status of the command
MaxStatus == 2
\* the largest value the time wrapper measures (KB, 0.01 s)
MaxMeasure == 1

Word == [kind |-> "word", val |-> 0]
IntField(v) == [kind |-> "int", val |-> v]
DecField(v) == [kind |-> "dec", val |-> v]

\* the lines a tool may write: a message, and a number
ToolLines == {<<Word>>, <<IntField(7)>>}

\* what a tool may leave at the end of its output without a newline
ToolTails == {<<>>, <<Word>>, <<IntField(7)>>, <<IntField(0 - 5)>>}

\* what GNU time writes once the command has ended: a note about a non-zero
\* status, then one line in the format of -f"%M %S %U"
TimeWrites(status, M, S, U) ==
    (IF status # 0 THEN << <<Word, Word, Word, IntField(status)>> >> ELSE <<>>)
        \o << <<IntField(M), DecField(S), DecField(U)>> >>

\* the stream after `lines` are written to it: text written after an
\* unterminated tail continues that line
StreamWrite(out, lines) ==
    IF out.tail = <<>> THEN out.lines \o lines
    ELSE out.lines \o << out.tail \o Head(lines) >> \o Tail(lines)

\* int(field), float(field): what is accepted
IsInt(f) == f.kind = "int"
IsFloat(f) == f.kind \in {"int", "dec"}
\* float(field) in 0.01 s
FloatValue(f) == IF f.kind = "int" THEN 100 * f.val ELSE f.val

\* time_cmd without the test of the exit status
time_cmd_unchecked(exit_status, stderr) ==
    LET m == stderr[Len(stderr)][1]
        s == stderr[Len(stderr)][2]
        u == stderr[Len(stderr)][3]
    IN  [raised |-> FALSE, exc |-> "", msg |-> <<>>,
         value |-> <<FloatValue(u) + FloatValue(s), m.val * 1024>>]

\* time_cmd from the return of subprocess.call on: the raise on a non-zero
\* status, else the parse of the last line of stderr
time_cmd(exit_status, stderr) ==
    IF exit_status # 0
    THEN [raised |-> TRUE, exc |-> "ValueError",
          msg |-> <<[status |-> exit_status, stderr |-> stderr]>>, value |-> <<>>]
    ELSE IF stderr = <<>> \/ Len(stderr[Len(stderr)]) < 3
    THEN [raised |-> TRUE, exc |-> "IndexError", msg |-> <<>>, value |-> <<>>]
    ELSE LET split == stderr[Len(stderr)]
         IN  IF ~IsInt(split[1]) \/ ~IsFloat(split[2]) \/ ~IsFloat(split[3])
             THEN [raised |-> TRUE, exc |-> "ValueError", msg |-> <<>>, value |-> <<>>]
             ELSE [raised |-> FALSE, exc |-> "", msg |-> <<>>,
                   value |-> <<FloatValue(split[3]) + FloatValue(split[2]),
                               split[1].val * 1024>>]

\* the names the except clause of run_fastarg looks up that are bound in the
\* module: 'warn' is neither imported nor defined
BoundNames == {"shutil", "os", "sys"}

\* the except clause: warn(...), shutil.copyfile(..., 'bad.hap'), raise
ExceptClause(bad) ==
    IF "warn" \notin BoundNames
    THEN [exc |-> "NameError", bad |-> bad]
    ELSE [exc |-> "AssertionError", bad |-> TRUE]

FastEnvs ==
    [status : 0..MaxStatus,
     tool : [lines : SeqsUpTo(ToolLines, MaxToolLines), tail : ToolTails],
     M : 0..MaxMeasure, S : 0..MaxMeasure, U : 0..MaxMeasure,
     same : BOOLEAN]

FastInit ==
    /\ fa_env \in FastEnvs
    /\ fa_stderr = <<>> /\ fa_tc = <<>> /\ fa_bad = FALSE /\ fa_exc = "" /\ fa_pc = "call"
    /\ GridIdle /\ SeedIdle /\ DatasetIdle /\ NameIdle /\ SampIdle /\ AwIdle
    /\ LaterIdle

\* time_cmd: subprocess.call(full_cmd, stderr=stderr, stdout=stdout)
TC_Call ==
    /\ fa_pc = "call"
    /\ fa_stderr' = StreamWrite(fa_env.tool,
                                TimeWrites(fa_env.status, fa_env.M, fa_env.S, fa_env.U))
    /\ fa_pc' = "called"
    /\ UNCHANGED <<fa_env, fa_tc, fa_bad, fa_exc, notFast>>

\* time_cmd: the test of the status and the parse; a raise leaves run_fastarg
TC_Finish ==
    /\ fa_pc = "called"
    /\ LET r == time_cmd(fa_env.status, fa_stderr)
       IN  /\ fa_tc' = <<r>>
           /\ fa_exc' = r.exc
           /\ fa_pc' = IF r.raised THEN "raised" ELSE "compare"
    /\ UNCHANGED <<fa_env, fa_stderr, fa_bad, notFast>>

\* the output is converted and written out again; assert filecmp.cmp(...)
FA_Compare ==
    /\ fa_pc = "compare"
    /\ fa_pc' = IF fa_env.same THEN "returned" ELSE "except"
    /\ UNCHANGED <<fa_env, fa_stderr, fa_tc, fa_bad, fa_exc, notFast>>

\* except AssertionError: ...
FA_Except ==
    /\ fa_pc = "except"
    /\ LET r == ExceptClause(fa_bad)
       IN  fa_exc' = r.exc /\ fa_bad' = r.bad
    /\ fa_pc' = "raised"
    /\ UNCHANGED <<fa_env, fa_stderr, fa_tc, notFast>>

FastNext == TC_Call \/ TC_Finish \/ FA_Compare \/ FA_Except

FastSpec == FastInit /\ [][FastNext]_vars

(***************************************************************************)
(* The ARGweaver branch of generate() for one row, with run_argweaver.  A  *)
(* file is named by what follows out_fn, the row's output name             *)
(* construct_argweaver_name(err_fn, inference_seed), in its path.  The     *)
(* tool is outside the repository: a run writes the samples 0, freq,       *)
(* 2 * freq, ... and may end after any of them.                            *)
(***************************************************************************)
\* the largest aw_n_out_samples of a row
MaxSamples == 3
\* how often the branch is entered for one row (once per pass)
MaxRuns == 2

\* aw_iter_out_freq
Frequencies == {1, 10}

\* "_i" + ".", what smc_prefix adds to out_fn
SmcPrefix == <<95, 105, 46>>
\* ".smc.gz"
SmcExt == <<46, 115, 109, 99, 46, 103, 122>>

\* int(s) of a string of decimal digits
RECURSIVE ParseInt(_)
ParseInt(s) ==
    IF s = <<>> THEN 0
    ELSE 10 * ParseInt(SubSeq(s, 1, Len(s) - 1)) + (s[Len(s)] - 48)

\* sep.join(strs)
RECURSIVE JoinWith(_, _)
JoinWith(sep, strs) ==
    IF strs = <<>> THEN <<>>
    ELSE IF Len(strs) = 1 THEN strs[1]
    ELSE strs[1] \o sep \o JoinWith(sep, Tail(strs))

\* the file arg-sample writes for iteration v: <prefix>.<v>.smc.gz
SmcFile(v) == SmcPrefix \o Str(v) \o SmcExt

\* the files one run of the tool may write for configuration cfg
Emissions(cfg) == {{SmcFile(k * cfg.freq) : k \in 0..(j - 1)} : j \in 1..cfg.n}

\* the orders glob.glob may list a set of files in
Listings(files) == {p \in [1..Cardinality(files) -> files] : Range(p) = files}

\* iterations = [f[len(smc_prefix):-7] for f in glob.glob(...)]
iterations(listing) ==
    [k \in 1..Len(listing) |->
        SubSeq(listing[k], Len(SmcPrefix) + 1, Len(listing[k]) - 7)]

\* a name that keeps the first digit of the identifier only
IterationSuffixShort(it) == <<95, 105, 46>> \o <<Head(it)>>

\* what construct_argweaver_name(err_fn, seed, it) adds to out_fn
IterationSuffix(it) == <<95, 105, 46>> \o Str(ParseInt(it))     \* "_i."

AwInit ==
    /\ aw_cfg \in [n : 1..MaxSamples, freq : Frequencies]
    /\ aw_smc = {} /\ aw_emitted = {} /\ aw_ids = <<>> /\ aw_todo = <<>>
    /\ aw_written = <<>> /\ aw_cell = <<>> /\ aw_runs = 0 /\ aw_pc = "branch"
    /\ GridIdle /\ SeedIdle /\ DatasetIdle /\ NameIdle /\ SampIdle /\ FastIdle
    /\ LaterIdle

\* run_argweaver: the tool runs; its files join, or replace, those under
\* the prefix.  A later pass comes to the row again
AW_RunTool ==
    /\ aw_pc \in {"branch", "done"} /\ aw_runs < MaxRuns
    /\ \E files \in Emissions(aw_cfg) :
           /\ aw_emitted' = files
           /\ aw_smc' = aw_smc \cup files
    /\ aw_runs' = aw_runs + 1
    /\ aw_ids' = <<>> /\ aw_todo' = <<>> /\ aw_written' = <<>>
    /\ aw_pc' = "glob"
    /\ UNCHANGED <<aw_cfg, aw_cell, notAw>>

\* run_argweaver: the files under the prefix are listed and run_argweaver
\* returns the identifiers
AW_Glob ==
    /\ aw_pc = "glob"
    /\ \E listing \in Listings(aw_smc) :
           /\ aw_ids' = iterations(listing)
           /\ aw_todo' = aw_ids'
    /\ aw_pc' = "convert"
    /\ UNCHANGED <<aw_cfg, aw_smc, aw_emitted, aw_written, aw_cell, aw_runs, notAw>>

\* for it in iteration_ids: base + ".smc.gz" is converted into base + ".nex"
AW_Convert ==
    /\ aw_pc = "convert" /\ aw_todo # <<>>
    /\ LET base == IterationSuffix(Head(aw_todo))
       IN  aw_written' = Append(aw_written, [nex |-> base, smc |-> base \o SmcExt])
    /\ aw_todo' = Tail(aw_todo)
    /\ UNCHANGED <<aw_cfg, aw_smc, aw_emitted, aw_ids, aw_cell, aw_runs, aw_pc, notAw>>

\* self.data.loc[i, result_cols] = (time, memory, ",".join(iteration_ids))
AW_SetCell ==
    /\ aw_pc = "convert" /\ aw_todo = <<>>
    /\ aw_cell' = <<JoinWith(<<44>>, aw_ids)>>
    /\ aw_pc' = "done"
    /\ UNCHANGED <<aw_cfg, aw_smc, aw_emitted, aw_ids, aw_todo, aw_written, aw_runs, notAw>>

AwNext == AW_RunTool \/ AW_Glob \/ AW_Convert \/ AW_SetCell

AwSpec == AwInit /\ [][AwNext]_vars

(***************************************************************************)
(* Dataset.__init__: the run id and the name of the store.  The value of   *)
(* a run parameter is <<"int", v>> (an argument of the command line) or    *)
(* <<"str", s>> (a piece of a file name); a dict is the set of its         *)
(* <<key, value>> pairs.                                                   *)
(***************************************************************************)
\* the defaults of set_default_run_params
DefaultReps == 10
NumRecordsSeed == 123

\* Dataset.data_dir, the working directory, and the names of the datasets
data_dir == <<100, 97, 116, 97>>                                  \* "data"
Cwd == <<47, 119>>                                                \* "/w"
MetricsName ==                                                    \* "metrics_by_mutation_rate"
    <<109, 101, 116, 114, 105, 99, 115, 95, 98, 121, 95, 109, 117, 116, 97, 116,
      105, 111, 110, 95, 114, 97, 116, 101>>
NumRecordsName ==                                                 \* "num_records_by_sample_size"
    <<110, 117, 109, 95, 114, 101, 99, 111, 114, 100, 115, 95, 98, 121, 95, 115,
      97, 109, 112, 108, 101, 95, 115, 105, 122, 101>>
RepsKey == <<114, 101, 112, 115>>                                 \* "reps"
SeedKey == <<115, 101, 101, 100>>                                 \* "seed"
CsvExt == <<46, 99, 115, 118>>                                    \* ".csv"

\* s.find(c) and s.rfind(c), counted from 1: 0 when c is not in s
Find(s, c) ==
    LET P == {k \in 1..Len(s) : s[k] = c}
    IN  IF P = {} THEN 0 ELSE CHOOSE k \in P : \A j \in P : k <= j
RFind(s, c) ==
    LET P == {k \in 1..Len(s) : s[k] = c}
    IN  IF P = {} THEN 0 ELSE CHOOSE k \in P : \A j \in P : j <= k

\* s.split(c)
RECURSIVE Split(_, _)
Split(s, c) ==
    LET k == Find(s, c)
    IN  IF k = 0 THEN <<s>>
        ELSE <<SubSeq(s, 1, k - 1)>> \o Split(SubSeq(s, k + 1, Len(s)), c)

\* s.split(c, 1)
SplitOnce(s, c) ==
    LET k == Find(s, c)
    IN  IF k = 0 THEN <<s>> ELSE <<SubSeq(s, 1, k - 1), SubSeq(s, k + 1, Len(s))>>

\* s.endswith(t)
EndsWithStr(s, t) ==
    Len(s) >= Len(t) /\ SubSeq(s, Len(s) - Len(t) + 1, Len(s)) = t

\* str(v) of the value of a run parameter
PyStr(v) == IF v[1] = "int" THEN Str(v[2]) ELSE v[2]

\* sorted(run_params.keys())
RECURSIVE SortedKeys(_)
SortedKeys(K) ==
    IF K = {} THEN <<>>
    ELSE LET m == CHOOSE x \in K : \A y \in K \ {x} : StrLess(x, y)
         IN  <<m>> \o SortedKeys(K \ {m})

\* the value of key k in dict d
Lookup(d, k) == (CHOOSE e \in d : e[1] = k)[2]

\* "_".join([k+"="+str(run_params[k]) for k in sorted(run_params.keys())])
run_id(run_params) ==
    LET keys == SortedKeys({e[1] : e \in run_params})
    IN  JoinWith(<<95>>, [n \in 1..Len(keys) |->
                             keys[n] \o <<61>> \o PyStr(Lookup(run_params, keys[n]))])

\* os.path.abspath of a path without '.' or '..'
abspath(path) == IF path # <<>> /\ path[1] = 47 THEN path ELSE Cwd \o <<47>> \o path

\* os.path.join(self.data_dir, "{}+{}.csv".format(self.name, self.run_id))
StorePath(name, rid) == path_join(data_dir, name \o <<43>> \o rid \o CsvExt)

\* what is after the last "+" of a file name, its end kept
param_string_to_end(data_file) ==
    SubSeq(data_file, RFind(data_file, 43) + 1, Len(data_file))

\* data_file[(data_file.rfind("+")+1):-4]
param_string(data_file) ==
    SubSeq(data_file, RFind(data_file, 43) + 1, Len(data_file) - 4)

\* {p.split("=",1)[0]:p.split("=",1)[1] for p in param_string.split("_")}:
\* a piece without "=" has no [1] (IndexError); of two pieces with one key
\* the later stays
ParsedParams(ps) ==
    LET pieces == Split(ps, 95)
        halves == [n \in 1..Len(pieces) |-> SplitOnce(pieces[n], 61)]
    IN  IF \E n \in 1..Len(pieces) : Len(halves[n]) < 2
        THEN [raised |-> TRUE, value |-> {}]
        ELSE [raised |-> FALSE,
              value |-> {<<halves[n][1], <<"str", halves[n][2]>>>> :
                            n \in {m \in 1..Len(pieces) :
                                      \A j \in (m + 1)..Len(pieces) :
                                          halves[j][1] # halves[m][1]}}]

\* the arguments of `setup`: a dataset, and --reps and --seed or neither
RepsArgs == {<<>>, <<1>>, <<2>>, <<12>>}
SeedArgs == {<<>>, <<1>>, <<12>>, <<21>>, <<123>>}
IdArgs == [name : {MetricsName, NumRecordsName}, reps : RepsArgs, seed : SeedArgs]

\* set_default_run_params(params, {'seed': ..., 'reps': 10}) of the
\* subclasses, before Dataset.__init__ is called
WithDefaults(a) ==
    [name |-> a.name,
     reps |-> IF a.reps = <<>> THEN DefaultReps ELSE a.reps[1],
     seed |-> IF a.seed # <<>> THEN a.seed[1]
              ELSE IF a.name = MetricsName THEN DatasetSeed ELSE NumRecordsSeed]

\* Dataset.__init__(reps=..., seed=...): run_params is the arguments
Constructed(a) ==
    LET rid == run_id({<<RepsKey, <<"int", a.reps>>>>, <<SeedKey, <<"int", a.seed>>>>})
    IN  [raised |-> FALSE, run_id |-> rid, data_file |-> abspath(StorePath(a.name, rid))]

\* Dataset.__init__(data_file=...): the two asserts, and run_params is
\* taken from the name of the file
ConstructedFrom(name, data_file) ==
    IF ~EndsWithStr(data_file, CsvExt) \/ RFind(data_file, 43) = 0
    THEN [raised |-> TRUE, run_id |-> <<>>, data_file |-> <<>>]
    ELSE LET parsed == ParsedParams(param_string(data_file))
         IN  IF parsed.raised
             THEN [raised |-> TRUE, run_id |-> <<>>, data_file |-> <<>>]
             ELSE LET rid == run_id(parsed.value)
                  IN  [raised |-> FALSE, run_id |-> rid,
                       data_file |-> abspath(StorePath(name, rid))]

IdInit ==
    /\ id_args = <<>> /\ id_made = <<>> /\ id_given = <<>> /\ id_loaded = <<>>
    /\ id_prev = <<>> /\ id_pc = "new"
    /\ GridIdle /\ SeedIdle /\ DatasetIdle
    /\ NameIdle /\ SampIdle /\ FastIdle /\ AwIdle /\ SimIdle /\ SetupIdle

\* `setup NAME [--reps R] [--seed S]`: the store of the construction before
\* stays where it is
ID_Create ==
    /\ id_pc \in {"new", "made", "loaded"}
    /\ \E a \in IdArgs :
           /\ id_args' = <<WithDefaults(a)>>
           /\ id_made' = <<Constructed(WithDefaults(a))>>
    /\ id_prev' = IF id_made = <<>> THEN <<>>
                  ELSE <<[args |-> id_args[1], made |-> id_made[1]]>>
    /\ id_given' = <<>> /\ id_loaded' = <<>>
    /\ id_pc' = "made"
    /\ UNCHANGED notId

\* the stores written so far for the dataset of this construction
Stores ==
    {id_made[1].data_file} \cup
    (IF id_prev # <<>> /\ id_prev[1].args.name = id_args[1].name
     THEN {id_prev[1].made.data_file} ELSE {})

\* the path without the working directory in front
RelativeTo(path) == SubSeq(path, Len(Cwd) + 2, Len(path))

\* `generate NAME`: glob finds the stores under data_dir by their relative
\* names, and which has the latest change time is not fixed by the
\* order they were created in
ID_LoadFound ==
    /\ id_pc = "made"
    /\ \E store \in Stores :
           /\ id_given' = <<RelativeTo(store)>>
           /\ id_loaded' = <<ConstructedFrom(id_args[1].name, RelativeTo(store))>>
    /\ id_pc' = "loaded"
    /\ UNCHANGED <<id_args, id_made, id_prev, notId>>

\* `generate NAME --data-file F`, F the full name of a store
ID_LoadGiven ==
    /\ id_pc = "made"
    /\ \E store \in Stores :
           /\ id_given' = <<store>>
           /\ id_loaded' = <<ConstructedFrom(id_args[1].name, store)>>
    /\ id_pc' = "loaded"
    /\ UNCHANGED <<id_args, id_made, id_prev, notId>>

IdNext == ID_Create \/ ID_LoadFound \/ ID_LoadGiven

IdSpec == IdInit /\ [][IdNext]_vars

(***************************************************************************)
(* single_simulation.  rng = random.Random(seed) is a generator of its     *)
(* own: its k-th randint is a function of seed and k.  msprime.simulate    *)
(* and discretise_mutations are functions of the parameters and the        *)
(* sub-seed; which sub-seeds discretise_mutations refuses (ValueError) is  *)
(* given by ss_env.                                                        *)
(***************************************************************************)
\* the sub-seeds are 1..MaxSubSeed, in place of 1..2**31
MaxSubSeed == 3
\* the most turns of the while loop that are followed
MaxDraws == 3

\* the parameters that are the same for every row of the dataset: the rates
\* in 1e-13
SampleSize == 12
PopulationSize == 5000
SequenceLength == 50000
RecombinationRate == 250000

SubSeeds == 1..MaxSubSeed
SimSeeds == {1, 11}
SimMutationRates == {150000, 320000}

\* os.path.join(self.data_dir, "raw__NOBACKUP__", self.name, str(self.run_id))
\* and, in it, "simulations"
simulations_dir(name, rid) ==
    path_join(path_join(path_join(path_join(data_dir,
        <<114, 97, 119, 95, 95, 78, 79, 66, 65, 67, 75, 85, 80, 95, 95>>),  \* "raw__NOBACKUP__"
        name), rid),
        <<115, 105, 109, 117, 108, 97, 116, 105, 111, 110, 115>>)         \* "simulations"

\* the directory of the dataset with its default parameters
DefaultSimulationsDir ==
    simulations_dir(MetricsName,
                    Constructed([name |-> MetricsName, reps |-> DefaultReps,
                                 seed |-> DatasetSeed]).run_id)

\* the k-th value of a generator seeded with seed: which function of seed
\* and k it is does not matter here, only that it is one
RandomStream(seed, k) == ((seed + k) % MaxSubSeed) + 1

\* a generator seeded by the operating system: any value at any draw
randint_unseeded(seed, k) == SubSeeds

\* rng.randint(1, 2**31), the k-th draw of random.Random(seed)
randint(seed, k) == {RandomStream(seed, k)}

\* except ValueError
Caught(kind) == kind = "ValueError"

\* sim_fn = msprime_name(n, Ne, l, rho, mu, seed, seed, self.simulations_dir)
sim_fn(mu, seed) ==
    msprime_name(SampleSize, PopulationSize, SequenceLength, RecombinationRate,
                 mu, seed, seed, <<DefaultSimulationsDir>>)

Hdf5Ext == <<46, 104, 100, 102, 53>>                              \* ".hdf5"

SimInit ==
    /\ ss_env \in [SimMutationRates \X SubSeeds -> BOOLEAN]
    /\ ss_args = <<>> /\ ss_tried = <<>> /\ ss_dumped = {}
    /\ ss_ret = <<>> /\ ss_exc = "" /\ ss_prev = <<>> /\ ss_pc = "idle"
    /\ GridIdle /\ SeedIdle /\ DatasetIdle
    /\ NameIdle /\ SampIdle /\ FastIdle /\ AwIdle /\ IdIdle /\ SetupIdle

\* single_simulation(n, Ne, l, rho, mu, seed): rng = random.Random(seed)
SS_Call ==
    /\ ss_pc = "idle"
    /\ \E mu \in SimMutationRates, seed \in SimSeeds :
           ss_args' = <<[mu |-> mu, seed |-> seed]>>
    /\ ss_tried' = <<>> /\ ss_ret' = <<>>
    /\ ss_pc' = "loop"
    /\ UNCHANGED <<ss_env, ss_dumped, ss_exc, ss_prev, notSim>>

\* one turn of the while loop: the sub-seed, the simulation and
\* discretise_mutations, whose ValueError is logged
SS_Draw ==
    /\ ss_pc = "loop" /\ Len(ss_tried) < MaxDraws
    /\ \E sub \in randint(ss_args[1].seed, Len(ss_tried) + 1) :
           /\ ss_tried' = Append(ss_tried, sub)
           /\ IF ~ss_env[<<ss_args[1].mu, sub>>]
              THEN ss_pc' = "done" /\ UNCHANGED ss_exc
              ELSE IF Caught("ValueError")
                   THEN ss_pc' = "loop" /\ UNCHANGED ss_exc
                   ELSE ss_pc' = "raised" /\ ss_exc' = "ValueError"
    /\ UNCHANGED <<ss_env, ss_args, ss_dumped, ss_ret, ss_prev, notSim>>

\* ts.dump(sim_fn + ".hdf5"); return ts, sim_fn (subsample is None): the
\* file holds the simulation of the sub-seed drawn last
SS_Dump ==
    /\ ss_pc = "done"
    /\ LET fn == sim_fn(ss_args[1].mu, ss_args[1].seed)
       IN  /\ ss_dumped' = {f \in ss_dumped : f[1] # fn \o Hdf5Ext}
                               \cup {<<fn \o Hdf5Ext, ss_args[1].mu, ss_tried[Len(ss_tried)]>>}
           /\ ss_ret' = <<fn>>
    /\ ss_pc' = "returned"
    /\ UNCHANGED <<ss_env, ss_args, ss_tried, ss_exc, ss_prev, notSim>>

\* the caller has the result; the call is remembered for the next
SS_Leave ==
    /\ ss_pc = "returned"
    /\ ss_prev' = <<[args |-> ss_args[1], tried |-> ss_tried, ret |-> ss_ret]>>
    /\ ss_pc' = "idle"
    /\ UNCHANGED <<ss_env, ss_args, ss_tried, ss_dumped, ss_ret, ss_exc, notSim>>

SimNext == SS_Call \/ SS_Draw \/ SS_Dump \/ SS_Leave

SimSpec == SimInit /\ [][SimNext]_vars

(***************************************************************************)
(* setup(): the simulation of every group and its input files, and the     *)
(* names generate() derives from the rows of the same table.  A file is    *)
(* its name.                                                               *)
(***************************************************************************)
\* the seeds get_seeds may have returned for the groups: distinct, ascending
SetupSeeds == {1, 2, 11, 12, 21}
SeedLists ==
    {s \in [1..NumSims(GridTable) -> SetupSeeds] :
        \A j, k \in 1..NumSims(GridTable) : j < k => s[j] < s[k]}

\* a file left in simulations_dir by an earlier setup
StaleFile == path_join(DefaultSimulationsDir, <<111, 108, 100>>)      \* "old"

\* pd.unique: the distinct values in the order they first appear in
RECURSIVE pd_unique(_)
pd_unique(s) ==
    IF s = <<>> THEN <<>>
    ELSE LET r == pd_unique(SubSeq(s, 1, Len(s) - 1))
         IN  IF s[Len(s)] \in Range(r) THEN r ELSE Append(r, s[Len(s)])

\* sim = self.data[self.data.sim == s]: the rows of group s, in table order
GroupRows(t, s) == SelectSeq(t.rows, LAMBDA r : r.sim = s)

\* the mutation rate of a row in 1e-13, from the axis in 1e-9
RateOf(r) == r.axes[1] * 10000

\* the first error rate of the group only
FirstErrorRate(t, s) == <<GroupRows(t, s)[1].axes[3]>>

\* pd.unique(sim.error_rate)
GroupErrorRates(t, s) ==
    pd_unique([k \in 1..Len(GroupRows(t, s)) |-> GroupRows(t, s)[k].axes[3]])

\* float(pd.unique(sim.mutation_rate)), int(pd.unique(sim.seed)): there is
\* a value when the group has one and only one
GroupRate(t, s) == pd_unique([k \in 1..Len(GroupRows(t, s)) |-> RateOf(GroupRows(t, s)[k])])
GroupSeed(t, s) == pd_unique([k \in 1..Len(GroupRows(t, s)) |-> GroupRows(t, s)[k].seed[1]])

\* the address single_simulation returns to setup for group s
GroupAddress(t, s) == sim_fn(GroupRate(t, s)[1], GroupSeed(t, s)[1])

\* the extensions of the files generate reads, and of those setup writes
NpyExt == <<46, 110, 112, 121>>                                   \* ".npy"
PosExt == <<46, 112, 111, 115, 46, 110, 112, 121>>                \* ".pos.npy"
HapExt == <<46, 104, 97, 112>>                                    \* ".hap"
SitesExt == <<46, 115, 105, 116, 101, 115>>                       \* ".sites"
NexExt == <<46, 110, 101, 120>>                                   \* ".nex"
InputExts == {NpyExt, PosExt, HapExt, SitesExt}

\* what save_variant_matrices(ts, fn, error_rates) writes when it returns
VariantFiles(fn, error_rates) ==
    {add_error_param_to_name(fn, error_rates[k]) \o ext :
        k \in 1..Len(error_rates), ext \in InputExts}

\* what save_variant_matrices has written when its assert fails at the
\* first error rate
VariantFilesAtAssert(fn, error_rates) ==
    {add_error_param_to_name(fn, error_rates[1]) \o ext : ext \in {NpyExt, PosExt}}

\* generate: err_fn = add_error_param_to_name(msprime_name(d.sample_size,
\* ..., d.mutation_rate, d.seed, d.seed, self.simulations_dir), d.error_rate)
err_fn(t, row) ==
    LET d == t.rows[row + 1]
    IN  add_error_param_to_name(sim_fn(RateOf(d), d.seed[1]), d.axes[3])

\* the files the three branches of generate read for a row
RowInputs(t, row) == {err_fn(t, row) \o ext : ext \in InputExts}

SetupInit ==
    /\ su_table \in {<<AssignSeeds(GridTable, seeds)>> : seeds \in SeedLists}
    /\ su_files \in {{}, {StaleFile}}
    /\ su_s = 0 /\ su_row = 0 /\ su_read = {} /\ su_pc = "clear"
    /\ GridIdle /\ SeedIdle /\ DatasetIdle
    /\ NameIdle /\ SampIdle /\ FastIdle /\ AwIdle /\ IdIdle /\ SimIdle

\* shutil.rmtree(self.simulations_dir); os.makedirs(self.simulations_dir)
SU_Clear ==
    /\ su_pc = "clear"
    /\ su_files' = {}
    /\ su_pc' = "groups"
    /\ UNCHANGED <<su_table, su_s, su_row, su_read, notSetup>>

\* for s in range(max(self.data.sim)+1): single_simulation, the .nex file
\* and save_variant_matrices for the group; after the last group setup
\* returns
SU_Group ==
    /\ su_pc = "groups"
    /\ IF su_s < NumSims(su_table[1])
       THEN /\ Len(GroupRate(su_table[1], su_s)) = 1
            /\ Len(GroupSeed(su_table[1], su_s)) = 1
            /\ LET fn == GroupAddress(su_table[1], su_s)
               IN  su_files' = su_files \cup {fn \o Hdf5Ext, fn \o NexExt}
                       \cup VariantFiles(fn, GroupErrorRates(su_table[1], su_s))
            /\ su_s' = su_s + 1
            /\ UNCHANGED su_pc
       ELSE /\ su_pc' = "done"
            /\ UNCHANGED <<su_files, su_s>>
    /\ UNCHANGED <<su_table, su_row, su_read, notSetup>>

\* the assert of save_variant_matrices fails for the group (positions that
\* are not whole numbers): the exception ends setup
SU_GroupFails ==
    /\ su_pc = "groups" /\ su_s < NumSims(su_table[1])
    /\ LET fn == GroupAddress(su_table[1], su_s)
       IN  su_files' = su_files \cup {fn \o Hdf5Ext, fn \o NexExt}
               \cup VariantFilesAtAssert(fn, GroupErrorRates(su_table[1], su_s))
    /\ su_pc' = "failed"
    /\ UNCHANGED <<su_table, su_s, su_row, su_read, notSetup>>

\* generate, in a later process, at row su_row of the table of the store:
\* the names of the files its branches read
SU_GenerateRow ==
    /\ su_pc \in {"done", "failed"}
    /\ su_row < Len(su_table[1].rows)
    /\ su_read' = RowInputs(su_table[1], su_row)
    /\ su_row' = su_row + 1
    /\ UNCHANGED <<su_table, su_s, su_files, su_pc, notSetup>>

SetupNext == SU_Clear \/ SU_Group \/ SU_GroupFails \/ SU_GenerateRow

SetupSpec == SetupInit /\ [][SetupNext]_vars

(***************************************************************************)
(* The claims.                                                             *)
(***************************************************************************)

\* the rows of table t other than row k (1-based) are those of table u
SameRowsExcept(t, u, k) ==
    /\ Len(t.rows) = Len(u.rows)
    /\ \A r \in 1..Len(t.rows) : r # k => t.rows[r] = u.rows[r]

\* row k (1-based) of table t holds a result of pass p for every tool of ts
HasResultsOf(t, k, ts, p) ==
    \A tl \in Range(ts) : t.rows[k].res[tl] # NaN /\ t.rows[k].res[tl][1] = p

NonMissing(t) ==
    [rows |-> [k \in 1..Len(t.rows) |->
                  [axes |-> t.rows[k].axes, sim |-> t.rows[k].sim,
                   seed |-> t.rows[k].seed,
                   inference_seed |-> t.rows[k].inference_seed,
                   results |-> {tl \in t.cols : t.rows[k].res[tl] # NaN}]],
     unnamed |-> t.unnamed]

\* the non-missing cells one uninterrupted pass leaves, from the created
\* table that store t descends from
UninterruptedCells(t) ==
    [rows |-> [k \in 1..Len(t.rows) |->
                  [axes |-> t.rows[k].axes, sim |-> t.rows[k].sim,
                   seed |-> t.rows[k].seed,
                   inference_seed |-> <<t.rows[k].seed[1] + (k - 1)>>,
                   results |-> Range(tools)]],
     unnamed |-> to_csv(read_csv(to_csv(GridTable))).unnamed]

\* the reference of C2: one uninterrupted pass over the created table
\* leaves exactly UninterruptedCells
UninterruptedPassCells ==
    f_hist = <<"done">> => NonMissing(file[1]) = UninterruptedCells(file[1])

\* C2: a pass that is cut after some row, followed by a fresh construction
\* and a complete pass, leaves a store with the non-missing cells of one
\* uninterrupted pass over the same created table.
C2_ResumedEqualsUninterrupted ==
    f_hist = <<"cut", "done">> => NonMissing(file[1]) = UninterruptedCells(file[1])

\* the store is as the checkpoint after row i-1 of this pass left it, or, at
\* the first row, as the pass found it
StoreAsLastCheckpoint ==
    IF i = 0
    THEN /\ Len(f_hist) = pass - 1
         /\ file[1].unnamed = data[1].unnamed
         /\ SameRowsExcept(file[1], data[1], 1)
    ELSE /\ Len(f_hist) = pass
         /\ file[1].unnamed = data[1].unnamed + 1
         /\ file[1].cols = data[1].cols
         /\ SameRowsExcept(file[1], data[1], i + 1)
         /\ \A k \in 1..i : HasResultsOf(file[1], k, tools, pass)
         /\ \A tl \in Range(tools) :
                file[1].rows[i + 1].res[tl] = NaN \/ file[1].rows[i + 1].res[tl][1] < pass

\* C3: a tool that fails at row i ends the process at once, no further tool
\* or row is run, and the store stays as the checkpoint after row i-1 wrote
\* it (as the pass found it, at the first row).
C3_ToolFailureStopsPass ==
    [][(exit = "running" /\ exit' = "tool") =>
            /\ pc' = "off"
            /\ file' = file /\ f_hist' = f_hist
            /\ StoreAsLastCheckpoint]_vars

\* a tool failed at the second row: the first row's checkpoint is the store
C3_Witness ==
    /\ exit = "tool" /\ pc = "off"
    /\ f_hist = <<"cut">>
    /\ HasResultsOf(file[1], 1, tools, 1)
    /\ \A tl \in Range(tools) : file[1].rows[2].res[tl] = NaN

\* the grid of a table: the parameters, the group and the seed of each row
GridOf(t) ==
    [k \in 1..Len(t.rows) |-> <<t.rows[k].axes, t.rows[k].sim, t.rows[k].seed>>]

\* C4: once the store exists, every later construction of the dataset reads
\* it instead of expanding the grid again, and the rows and seeds the store
\* records are never replaced.
C4_StoreReadNeverRecreated ==
    [][file # <<>> =>
            /\ file' # <<>> /\ GridOf(file'[1]) = GridOf(file[1])
            /\ (pc = "off" /\ pc' # "off") => data' = <<read_csv(file[1])>>]_vars

\* rows of t that agree on the simulation-defining axes have one group id
\* and one seed
GroupsShareSeed(t) ==
    \A k1, k2 \in 1..Len(t.rows) :
        SubSeq(t.rows[k1].axes, 1, Len(SimAxes)) = SubSeq(t.rows[k2].axes, 1, Len(SimAxes))
            => /\ t.rows[k1].sim = t.rows[k2].sim
               /\ t.rows[k1].seed = t.rows[k2].seed

\* C9: in the store, and in the table in memory, rows that agree on every
\* simulation-defining axis carry the same group id and the same seed, from
\* the creation on and through every load and generate.
C9_GroupRowsShareSeed ==
    /\ file # <<>> => GroupsShareSeed(file[1])
    /\ (data # <<>> /\ pc # "create") => GroupsShareSeed(data[1])

\* a loaded table in a second pass: two rows of one group with their seed,
\* and a row of another group with another
C9_Witness ==
    /\ pc = "tools" /\ pass = 2
    /\ data[1].rows[1].axes[2] = data[1].rows[2].axes[2]
    /\ data[1].rows[1].seed # NaN
    /\ data[1].rows[1].seed = data[1].rows[2].seed
    /\ data[1].rows[1].seed # data[1].rows[3].seed

\* C5: for n >= 1 and n <= upper, get_seeds returns, on every path, exactly
\* n pairwise distinct integers, each in [0, upper).
C5_GetSeedsReturnsDistinct ==
    (gs_pc \in {"returned", "raised"} /\ gs_n <= gs_upper) =>
        /\ gs_pc = "returned"
        /\ Len(gs_seeds) = gs_n
        /\ Cardinality(Range(gs_seeds)) = gs_n
        /\ Range(gs_seeds) \subseteq 0..(gs_upper - 1)

\* C6: two calls of get_seeds with the same n, master seed and upper bound
\* return the same sequence of seeds.
C6_GetSeedsReproducible ==
    (/\ gs_pc = "returned"
     /\ gs_prev # <<>>
     /\ gs_prev[1].n = gs_n /\ gs_prev[1].seed = gs_seed /\ gs_prev[1].upper = gs_upper)
        => gs_seeds = gs_prev[1].seeds

\* C7: with upper < n, get_seeds never returns (so never returns fewer than
\* n seeds) and every such call ends by raising.
C7_SmallUpperRaises ==
    /\ [](gs_upper < gs_n => gs_pc # "returned")
    /\ ((gs_pc = "seeded" /\ gs_upper < gs_n) ~> gs_pc = "raised")

\* the failure of C7 that comes out of the loop: some values were drawn, too
\* few of them distinct, and the top-up raised
C7_Witness == gs_pc = "raised" /\ 0 < gs_upper /\ gs_upper < gs_n /\ gs_seeds # <<>>

\* C8: the expanded table holds one row for every element of the Cartesian
\* product of the axes' value sequences and no other row: its length is the
\* product of the axis lengths, every row draws its k-th field from the k-th
\* axis, and a combination occurs as often as its values occur in the axes.
C8_ExpandGridIsProduct ==
    g_pc \in {"expanded", "coded"} =>
        LET a == g_axes[1]
            b == g_axes[2]
            c == g_post
        IN  /\ Len(g_table) = Len(a) * Len(b) * Len(c)
            /\ \A k \in 1..Len(g_table) :
                   /\ Len(g_table[k]) = 3
                   /\ g_table[k][1] \in Range(a)
                   /\ g_table[k][2] \in Range(b)
                   /\ g_table[k][3] \in Range(c)
            /\ \A x \in Range(a), y \in Range(b), z \in Range(c) :
                   Count(g_table, <<x, y, z>>) = Count(a, x) * Count(b, y) * Count(c, z)

\* a full 2 x 2 x 2 grid of distinct values has been expanded
C8_Witness ==
    /\ g_pc = "expanded"
    /\ Len(g_table) = 8
    /\ Cardinality(Range(g_table)) = 8

\* C10: at grid creation two rows receive the same simulation-group id if and
\* only if they agree on every simulation-defining axis, and the ids used are
\* exactly 0..G-1, G the number of distinct combinations of those axes.
C10_SimIdIffSameSimAxes ==
    g_pc = "coded" =>
        LET SimPart(k) == SubSeq(g_table[k], 1, Len(g_axes))
            G == Cardinality({SimPart(k) : k \in 1..Len(g_table)})
        IN  /\ \A k1, k2 \in 1..Len(g_table) :
                   (g_sim[k1] = g_sim[k2]) <=> (SimPart(k1) = SimPart(k2))
            /\ Range(g_sim) = 0..(G - 1)

\* the address of the unit of work with parameters a
Address(a) ==
    add_error_param_to_name(
        msprime_name(a.n, a.Ne, a.l, a.rho, a.mu, a.seed, a.seed, a.dir), a.err)

\* the fields of a that the address has to tell apart
Significant(a) == <<a.n, a.Ne, a.l, a.rho, a.mu, a.seed, a.err>>

\* C11: the address of a unit of work is a function of its parameters alone
\* (the same parameters give the same string), and two parameter tuples that
\* differ in n, Ne, l, rho, mu, seed or error_rate have different addresses.
C11_AddressInjective ==
    nm_pc = "err" =>
        /\ nm_name = Address(nm_args)
        /\ \A a \in NameArgs :
               Significant(a) # Significant(nm_args) => Address(a) # nm_name

\* C12: add_subsample_param_to_name(s, N) returns s extended by 'max<N>'
\* (after a '_' unless s ends in '+' or '-'), so that the subsample mark can
\* be combined with the error mark and the combined names stay distinct.
C12_SubsampleSuffix ==
    (nm_pc \in {"sub", "raised"}) =>
        /\ nm_pc = "sub"
        /\ LET s == msprime_name(nm_args.n, nm_args.Ne, nm_args.l, nm_args.rho,
                                 nm_args.mu, nm_args.seed, nm_args.seed, nm_args.dir)
               mark == IF EndsWith(s, 43) \/ EndsWith(s, 45)
                       THEN <<109, 97, 120>>            \* "max"
                       ELSE <<95, 109, 97, 120>>        \* "_max"
           IN  nm_name = s \o mark \o Str(nm_args.sub[1])

\* column k (1-based) of matrix S holds a 0 and a 1
Polymorphic(S, k) == 0 < Sum(S[k]) /\ Sum(S[k]) < Len(S[k])

\* C13: when generate_samples returns, every column of the matrix holds at
\* least one 0 and at least one 1: a column that is all 0 or all 1 after the
\* flips is drawn again and is never part of the result.  While the loop
\* runs, the columns before the variant it is at are of that kind already.
C13_NoFixedColumn ==
    /\ sv_pc = "samples" => \A k \in 1..sv_v : Polymorphic(sv_S, k)
    /\ sv_pc \in {"save", "assert", "hap", "sites"} =>
           /\ Len(sv_S) = Len(sv_ts.geno)
           /\ \A k \in 1..Len(sv_S) : Len(sv_S[k]) = sv_ts.n /\ Polymorphic(sv_S, k)

\* generate_samples returned a matrix of two columns after it had rejected
\* a column, and the matrix is not the genotypes it was given
C13_Witness ==
    /\ sv_pc = "save" /\ sv_redrawn
    /\ Len(sv_S) = 2
    /\ sv_S # sv_ts.geno

\* C14: with an error probability strictly between 0 and 1 and at least two
\* samples, generate_samples returns: under fair draws every column is
\* accepted after finitely many turns of its loop.
C14_RedrawTerminates ==
    (/\ sv_pc = "samples"
     /\ 0 < Head(sv_rates) /\ Head(sv_rates) < 100
     /\ sv_ts.n >= 2) ~> (sv_pc = "save")

\* a call with an error probability of 0.1 returned although both columns it
\* was given are fixed, each after a draw that was rejected
C14_Witness ==
    /\ sv_pc = "save" /\ sv_redrawn
    /\ Head(sv_rates) = 10
    /\ Len(sv_ts.geno) = 2
    /\ \A k \in 1..2 : ~Polymorphic(sv_ts.geno, k)

\* C15: if a position is not a whole number, save_variant_matrices ends with
\* an assertion failure, and it does so before the .hap and the .sites file
\* of that error rate exist: no such file is ever written for positions that
\* are not whole numbers.
C15_NonIntegerPositionsAssert ==
    ~AllInteger(sv_ts.pos) =>
        /\ \A f \in sv_files : f[2] \notin {"hap", "sites"}
        /\ sv_pc \notin {"hap", "sites"}
        /\ sv_pc = "returned" => sv_rates = <<>> /\ sv_files = {}
        /\ sv_pc = "raised" => sv_exc = "AssertionError"

\* C16: when the command ends with a non-zero status, time_cmd returns no
\* (cpu, memory) pair: it raises, and the failure carries the exit status and
\* everything captured from the error stream, which is not empty.
C16_NonZeroStatusRaises ==
    (fa_tc # <<>> /\ fa_env.status # 0) =>
        /\ fa_tc[1].raised /\ fa_tc[1].value = <<>>
        /\ fa_pc = "raised" /\ fa_exc = "ValueError"
        /\ fa_tc[1].msg # <<>>
        /\ fa_tc[1].msg[1].status = fa_env.status
        /\ fa_tc[1].msg[1].stderr # <<>>
        /\ fa_tc[1].msg[1].stderr =
               StreamWrite(fa_env.tool, TimeWrites(fa_env.status, fa_env.M, fa_env.S, fa_env.U))

\* a command that wrote a line of its own failed with status 2
C16_Witness ==
    /\ fa_pc = "raised" /\ fa_env.status = 2
    /\ fa_env.tool.lines # <<>>
    /\ Len(fa_tc[1].msg[1].stderr) >= 3

\* C17: when the command ends with status 0, time_cmd returns (S + U,
\* 1024 * M) for the M, S and U of the line the time wrapper wrote last,
\* whatever the tool wrote to the stream before, and neither value is
\* negative.
C17_LastLineOnly ==
    (fa_tc # <<>> /\ fa_env.status = 0) =>
        /\ ~fa_tc[1].raised
        /\ fa_tc[1].value = <<fa_env.S + fa_env.U, 1024 * fa_env.M>>
        /\ fa_tc[1].value[1] >= 0 /\ fa_tc[1].value[2] >= 0

\* C20: when the file written out again differs from the input, run_fastarg
\* copies it to 'bad.hap' and then raises the failure of the comparison: in
\* every run that fails there, bad.hap exists when the error leaves.
C20_BadHapBeforeRaise ==
    (fa_pc = "raised" /\ fa_tc # <<>> /\ ~fa_tc[1].raised) =>
        fa_bad /\ fa_exc = "AssertionError"

\* C18: with a tool name that generate() has no branch for in the tool list,
\* generate() fails before any tool has been run and before any checkpoint
\* of the pass: while the pass is among the tools of a row it is at the first
\* row with every tool still to run, and no pass has written the store.
C18_UnknownToolSurfacedAtOnce ==
    (Range(tools) \ KnownTools # {}) =>
        /\ f_hist = <<>>
        /\ pc = "tools" => (i = 0 /\ todo = SortedTools(tools))

\* the identifier in the name of an .smc.gz file
IdOfFile(f) == SubSeq(f, Len(SmcPrefix) + 1, Len(f) - Len(SmcExt))

\* once the branch is done for the row: the identifiers are those of
\* `files`, each once; one .nex file was written per identifier, named by it
\* and read from the .smc.gz file of that identifier, which exists; and the
\* cell is the identifiers joined by commas
IterationsAreThoseOf(files) ==
    aw_pc = "done" =>
        /\ Range(aw_ids) = {IdOfFile(f) : f \in files}
        /\ Len(aw_ids) = Cardinality(files)
        /\ Len(aw_written) = Len(aw_ids)
        /\ \A k \in 1..Len(aw_ids) :
               /\ aw_written[k].nex = SmcPrefix \o aw_ids[k]
               /\ aw_written[k].smc = SmcPrefix \o aw_ids[k] \o SmcExt
               /\ aw_written[k].smc \in aw_smc
        /\ aw_cell = <<JoinWith(<<44>>, aw_ids)>>

InferenceSeedsByRow(t) ==
    /\ \A k \in 1..Len(t.rows) :
           t.rows[k].inference_seed # NaN =>
               t.rows[k].inference_seed = <<t.rows[k].seed[1] + (k - 1)>>
    /\ \A k1, k2 \in 1..Len(t.rows) :
           (/\ k1 # k2
            /\ t.rows[k1].sim = t.rows[k2].sim
            /\ t.rows[k1].inference_seed # NaN
            /\ t.rows[k2].inference_seed # NaN)
               => t.rows[k1].inference_seed # t.rows[k2].inference_seed

\* C21: once generate has processed row i the row's inference_seed is its
\* seed plus i, in memory and in the store; a later pass over the same store
\* finds and writes the same value; and two distinct rows of one simulation
\* group never have the same inference seed.
C21_InferenceSeedIsSeedPlusRow ==
    /\ file # <<>> => InferenceSeedsByRow(file[1])
    /\ (data # <<>> /\ pc # "create") => InferenceSeedsByRow(data[1])
    /\ pc = "tools" => data[1].rows[i + 1].inference_seed # NaN
    /\ pc \in {"row", "tools"} =>
           \A k \in 1..i : /\ file[1].rows[k].inference_seed # NaN
                           /\ data[1].rows[k].inference_seed # NaN

\* a second pass has processed the second row: the two rows of the first
\* group hold their seed plus 0 and plus 1, as the first pass left them
C21_Witness ==
    /\ pc = "tools" /\ pass = 2 /\ i = 1
    /\ f_hist[1] = "done"
    /\ data[1].rows[1].sim = data[1].rows[2].sim
    /\ data[1].rows[1].inference_seed = <<data[1].rows[1].seed[1]>>
    /\ data[1].rows[2].inference_seed = <<data[1].rows[2].seed[1] + 1>>
    /\ file[1].rows[2].inference_seed = data[1].rows[2].inference_seed


\* row k (1-based) of table t holds no result of pass p for tool tl
NoResultOf(t, k, tl, p) ==
    t.rows[k].res[tl] = NaN \/ t.rows[k].res[tl][1] # p

\* a pass at row i, with the tools of todo still to run: every tool has run
\* in this pass for the rows before i, the tools before todo have run for
\* row i, and nothing else has run
PassProgress ==
    LET order == SortedTools(tools)
        ran == Len(order) - Len(todo)
    IN  /\ \A k \in 1..Len(data[1].rows) : k <= i => HasResultsOf(data[1], k, tools, pass)
        /\ \A k \in 1..Len(data[1].rows) :
               (k > i + 1 \/ (k = i + 1 /\ pc = "row")) =>
                   \A tl \in Range(tools) : NoResultOf(data[1], k, tl, pass)
        /\ pc = "tools" =>
               /\ Len(todo) <= Len(order)
               /\ todo = SubSeq(order, ran + 1, Len(order))
               /\ \A n \in 1..Len(order) :
                      IF n <= ran
                      THEN /\ data[1].rows[i + 1].res[order[n]] # NaN
                           /\ data[1].rows[i + 1].res[order[n]][1] = pass
                      ELSE NoResultOf(data[1], i + 1, order[n], pass)

\* a step of a pass that writes a result: it is the result of the next tool
\* of todo, for the row the pass is at, and replaces whatever the cell held
OneToolOneCell ==
    (pc = "tools" /\ pc' = "tools" /\ data' # data) =>
        /\ todo # <<>> /\ todo' = Tail(todo) /\ i' = i
        /\ \E value \in {data'[1].rows[i + 1].res[Head(todo)]} :
               /\ value # NaN /\ value[1] = pass
               /\ data' = <<[data[1] EXCEPT !.rows[i + 1].res[Head(todo)] = value]>>

\* C23: in a generate pass every configured tool runs once for every row,
\* rows in index order and tools in sorted order, whether or not the
\* row's cells already hold a result of an earlier pass, and the result
\* replaces what the cell held; after a pass that ran to completion every
\* result cell of the store is a result of that pass.
C23_EveryToolEveryRowEachPass ==
    /\ [](pc \in {"row", "tools"} => PassProgress)
    /\ [][OneToolOneCell]_vars
    /\ []((f_hist # <<>> /\ f_hist[Len(f_hist)] = "done") =>
             \A k \in 1..Len(file[1].rows) :
                 HasResultsOf(file[1], k, tools, Len(f_hist)))

\* a second pass ran to completion over a store whose cells the first pass
\* had populated: every cell holds a result of the second pass
C23_Witness ==
    /\ f_hist = <<"done", "done">> /\ exit = "done" /\ pc = "off"
    /\ tools = MetricsTools
    /\ \A k \in 1..Len(file[1].rows) : HasResultsOf(file[1], k, tools, 2)


\* the columns of table t that generate does not compute: the leading
\* unnamed columns, and the parameters, the group and the seed of each row
ColumnsNotComputed(t) == [unnamed |-> t.unnamed, grid |-> GridOf(t)]

\* a step of a generate pass, from the load of the store to its last
\* checkpoint
GenerateStep ==
    \/ pc = "off" /\ pc' = "generate"
    \/ pc \in {"generate", "row", "tools"}

\* generate leaves the rows, their parameters, their group and their seed as
\* they are, in the store and in memory
GenerateKeepsGrid ==
    [][GenerateStep =>
           /\ GridOf(file'[1]) = GridOf(file[1])
           /\ data' # <<>> => GridOf(data'[1]) = GridOf(file[1])]_vars

\* C24: a generate pass, complete or interrupted, leaves the rows of the
\* store, their parameters, group and seed as they are, and changes no cell
\* of the store other than inference_seed and the result columns: every
\* other column of the store is after the step what it was before.
C24_GenerateChangesOnlyResults ==
    [][GenerateStep =>
           /\ ColumnsNotComputed(file'[1]) = ColumnsNotComputed(file[1])
           /\ data' # <<>> => GridOf(data'[1]) = GridOf(file[1])]_vars


\* table u is table t with the result columns of the tools of ts that t
\* lacks added, all missing, and nothing else changed
ColumnsAdded(t, u, ts) ==
    /\ u.cols = t.cols \cup Range(ts)
    /\ u.unnamed = t.unnamed
    /\ Len(u.rows) = Len(t.rows)
    /\ \A k \in 1..Len(t.rows) :
           /\ u.rows[k].axes = t.rows[k].axes
           /\ u.rows[k].sim = t.rows[k].sim
           /\ u.rows[k].seed = t.rows[k].seed
           /\ u.rows[k].inference_seed = t.rows[k].inference_seed
           /\ \A tl \in ToolNames :
                  u.rows[k].res[tl] =
                      IF tl \in Range(ts) /\ tl \notin t.cols THEN NaN
                      ELSE t.rows[k].res[tl]

\* C25: add_columns at the start of generate adds the result columns the
\* loaded table lacks, filled with missing values, and leaves every column
\* the table has, the results loaded from an earlier pass among them, as
\* it is.
C25_AddColumnsKeepsExisting ==
    [][(pc = "generate" /\ pc' = "row") =>
           /\ ColumnsAdded(data[1], data'[1], tools)
           /\ data[1] = read_csv(file[1])]_vars

\* a second pass has added its columns to a table loaded with the results
\* of the first pass, and the results are still there
C25_Witness ==
    /\ pc = "row" /\ i = 0 /\ pass = 2
    /\ tools = MetricsTools
    /\ Range(tools) \subseteq file[1].cols
    /\ \A k \in 1..Len(data[1].rows) : HasResultsOf(data[1], k, tools, 1)


\* rows of t with one seed are rows of one simulation group
SeedTellsGroup(t) ==
    \A k1, k2 \in 1..Len(t.rows) :
        (t.rows[k1].seed # NaN /\ t.rows[k1].seed = t.rows[k2].seed)
            => t.rows[k1].sim = t.rows[k2].sim

\* C28: the seeds written at the creation of the table are pairwise distinct
\* between groups: in the store, and in the table in memory, two rows with
\* the same seed belong to the same simulation group.
C28_GroupsHaveDistinctSeeds ==
    /\ file # <<>> => SeedTellsGroup(file[1])
    /\ (data # <<>> /\ pc # "create") => SeedTellsGroup(data[1])

\* a store was created for two groups, each with its seed
C28_Witness ==
    /\ pc = "setup" /\ file # <<>>
    /\ \E k1, k2 \in 1..Len(file[1].rows) :
           /\ file[1].rows[k1].sim # file[1].rows[k2].sim
           /\ file[1].rows[k1].seed # NaN /\ file[1].rows[k2].seed # NaN
           /\ file[1].rows[k1].seed # file[1].rows[k2].seed
    /\ data[1].rows = file[1].rows


\* generate_samples is in its loops with an error probability of 0
ZeroRateCall == sv_pc = "samples" /\ Head(sv_rates) = 0

\* some column of the genotypes is all 0 or all 1
SomeFixedColumn == \E k \in 1..Len(sv_ts.geno) : ~Polymorphic(sv_ts.geno, k)

\* C29: with an error probability of 0 generate_samples flips no bit: the
\* columns it has accepted are the columns it was given, and what it returns
\* is the genotype matrix unchanged; it returns whenever every column it was
\* given holds a 0 and a 1; and when a column it was given is all 0 or all 1
\* it never leaves its loop, staying before the first such column.
C29_ZeroRateKeepsGenotypes ==
    /\ [](ZeroRateCall => \A k \in 1..sv_v : sv_S[k] = sv_ts.geno[k])
    /\ []((sv_pc = "save" /\ Head(sv_rates) = 0) =>
              /\ sv_S = sv_ts.geno
              /\ ~SomeFixedColumn /\ ~sv_redrawn)
    /\ ((ZeroRateCall /\ ~SomeFixedColumn) ~> (sv_pc = "save"))
    /\ []((ZeroRateCall /\ SomeFixedColumn) =>
              \A k \in 1..sv_v : Polymorphic(sv_ts.geno, k))
    /\ [][(ZeroRateCall /\ SomeFixedColumn) => (ZeroRateCall /\ SomeFixedColumn)']_vars

\* a call with an error probability of 0 returned the two columns it was
\* given, each holding a 0 and a 1
C29_Witness ==
    /\ sv_pc = "save" /\ Head(sv_rates) = 0
    /\ sv_ts.n = 2 /\ Len(sv_ts.geno) = 2
    /\ sv_S = sv_ts.geno
    /\ sv_ts.geno[1] # sv_ts.geno[2]

\* a call with an error probability of 0 has accepted a first column and
\* draws the second, which is fixed, again
ZeroRateRedraws ==
    /\ ZeroRateCall /\ sv_v = 1 /\ sv_redrawn
    /\ ~Polymorphic(sv_ts.geno, 2)


\* C22: the name of the store is a function of the dataset and the run
\* parameters that tells them apart, and that comes back: (a) two
\* constructions of one dataset with different (reps, seed) have different
\* store files; (b) a construction from a store file, found or given, ends
\* with the run id that file was written under and with that file as its
\* data file, so that its checkpoints go into the file it read.
C22_StoreNameRoundTrip ==
    /\ (id_prev # <<>> /\ id_prev[1].args # id_args[1]) =>
           id_prev[1].made.data_file # id_made[1].data_file
    /\ id_pc = "loaded" =>
           /\ ~id_loaded[1].raised
           /\ id_loaded[1].data_file = abspath(id_given[1])
           /\ \E store \in {id_made[1]} \cup {id_prev[n].made : n \in 1..Len(id_prev)} :
                  /\ store.data_file = abspath(id_given[1])
                  /\ store.run_id = id_loaded[1].run_id

\* the store made first, with reps 12 and seed 1, is found by its relative
\* name after a store of the same dataset was made with reps 1 and seed 21
C22_Witness ==
    /\ id_pc = "loaded"
    /\ id_prev # <<>> /\ id_prev[1].args.name = id_args[1].name
    /\ id_prev[1].args.reps = 12 /\ id_prev[1].args.seed = 1
    /\ id_args[1].reps = 1 /\ id_args[1].seed = 21
    /\ id_given[1][1] # 47
    /\ abspath(id_given[1]) = id_prev[1].made.data_file
    /\ ~id_loaded[1].raised
    /\ id_loaded[1].data_file = id_prev[1].made.data_file


\* sequence a is the beginning of sequence b
IsPrefix(a, b) == Len(a) <= Len(b) /\ a = SubSeq(b, 1, Len(a))

\* C26: single_simulation is a function of its arguments: a call with the
\* arguments of the call before tries the same sub-seeds in the same order,
\* rejects the same draws, accepts the same draw, the first that
\* discretise_mutations does not refuse, and returns the same address; a
\* draw that is refused is followed by the next draw, no file holds it and
\* no exception leaves the call for it.
C26_SimulationDeterministicInSeed ==
    /\ (ss_prev # <<>> /\ ss_args # <<>> /\ ss_prev[1].args = ss_args[1]) =>
           /\ IsPrefix(ss_tried, ss_prev[1].tried)
           /\ ss_pc \in {"done", "returned", "idle"} =>
                  ss_tried = ss_prev[1].tried
           /\ ss_pc \in {"returned", "idle"} => ss_ret = ss_prev[1].ret
    /\ \A k \in 1..Len(ss_tried) :
           ss_env[<<ss_args[1].mu, ss_tried[k]>>] <=> (k < Len(ss_tried) \/ ss_pc = "loop")
    /\ \A f \in ss_dumped : ~ss_env[<<f[2], f[3]>>]
    /\ ss_exc = "" /\ ss_pc # "raised"

\* a second call with the seed of the first has returned, after two draws
\* that were refused, what the first returned
C26_Witness ==
    /\ ss_pc = "returned" /\ ss_prev # <<>>
    /\ ss_prev[1].args = ss_args[1]
    /\ Len(ss_tried) = 3
    /\ ss_env[<<ss_args[1].mu, ss_tried[1]>>] /\ ss_env[<<ss_args[1].mu, ss_tried[2]>>]
    /\ ss_ret = ss_prev[1].ret


\* C27: once setup has returned for the table it was given, the .npy,
\* .pos.npy, .hap and .sites file of every row exist under the name generate
\* derives from the row, add_error_param_to_name(msprime_name(...),
\* error_rate): generate never asks for an input file that setup did not
\* write for the row's group and error rate.
C27_SetupWritesWhatGenerateReads ==
    su_pc = "done" =>
        /\ \A row \in 0..(Len(su_table[1].rows) - 1) :
               /\ RowInputs(su_table[1], row) \subseteq su_files
               /\ RowInputs(su_table[1], row) \subseteq
                      VariantFiles(GroupAddress(su_table[1], su_table[1].rows[row + 1].sim),
                                   <<su_table[1].rows[row + 1].axes[3]>>)
        /\ su_read \subseteq su_files

\* generate has come to the last row after a setup that returned: the row is
\* of the second group and of the second error rate, and its files exist
C27_Witness ==
    /\ su_pc = "done" /\ su_row = Len(su_table[1].rows)
    /\ su_table[1].rows[su_row].sim = 1
    /\ su_table[1].rows[su_row].axes[3] = 1
    /\ su_read = RowInputs(su_table[1], su_row - 1)
    /\ Cardinality(su_read) = 4
    /\ su_read \subseteq su_files
    /\ StaleFile \notin su_files

====
